---- MODULE Spec2Model ----
(***************************************************************************)
(* A model of the remote bridge of mcf_py: the link heartbeat state        *)
(* machine (RemoteStatusTracker), the RemotePair that couples it to a      *)
(* sender and a receiver, and the RemoteService component that drives the  *)
(* send rules (mcf_py/mcf_remote/remote_service.py, zmq_msgpack_comm.py).  *)
(*                                                                         *)
(* Time is counted in units of 100 ms.  The tracker stores the wall-clock  *)
(* times of the last ping and the last accepted pong and only ever         *)
(* compares "now" with such a time plus an interval; the model keeps the   *)
(* differences now - _last_ping_time and now - _last_pong_time (the ages), *)
(* capped just above the largest interval they are compared with.  The     *)
(* time stamp datetime(1970, 1, 1) is an age at the cap.                   *)
(***************************************************************************)
EXTENDS Integers, Sequences, FiniteSets, TLC

\* RemoteStatusTracker.__init__ defaults, in units of 100 ms
PingIntervalMin == 1
PingIntervalMax == 30
PongTimeout == 50

\* bounds on the freshness counter (the number of pings one run may send): of the
\* tracker on its own, and of the tracker inside the service
MaxFreshness == 6
MaxPings == 3

STATE_DOWN == "DOWN"
STATE_UNSURE == "UNSURE"
STATE_UP == "UP"
RemoteState == {STATE_DOWN, STATE_UNSURE, STATE_UP}

\* ages at which a time stamp is older than anything it is compared with
PingAgeCap == PingIntervalMax + 1
PongAgeCap == PongTimeout + 1

\* the send rules, in the order of RemoteService._send_rules: remote topic (the
\* key), local topic, queue length
SendKeys == <<"ra">>
SendTopic == [ra |-> "a"]
QueueLength == [ra |-> 1]
Keys == {SendKeys[i] : i \in 1..Len(SendKeys)}

\* the receive rules: remote topic (the key), local topic
ReceiveKeys == {"rc"}
ReceiveTopic == [rc |-> "c"]

\* remote topics a peer may send a value under, and topics it may name in a command
InTopics == {"rc", "zz"}
CommandTopics == {"ra", "zz"}

\* topics of the value store; a stored Value is V, no value is None
Topics == {"a", "c", "rc", "zz"}
None == "None"
V == "Value"

\* bound: pings of the peer waiting for their pong
MaxPongQueue == 1

\* the freshness a peer puts into its pings
PeerFreshness == {0}

\* replies to a value message, and to a message that carries no result
ValueReplies == {"INJECTED", "RECEIVED", "REJECTED", "TIMEOUT"}
PlainReplies == {"", "TIMEOUT"}

\* the commands that report the fate of a blocked value
BlockedCommands == {"valueInjected", "valueRejected"}

\* no message was read
NoMessage == [kind |-> "", topic |-> ""]

VARIABLES
    tracker,    \* the RemoteStatusTracker of the RemotePair
    last_op,    \* history: the operation of the last step
    old_state,              \* RemotePair._oldState
    pong_queue,             \* RemotePair._pong_queue
    initialized,            \* RemoteService._initialized
    forced_send,            \* SendRule.state.forced_send, per rule
    send_pending,           \* SendRule.state.send_pending, per rule
    queue,                  \* SendRule.queue, per rule
    store,                  \* the ValueStore: topic -> latest value
    trigger_flag,           \* Component._trigger
    shutdown_request,       \* Component._shutdown_request
    pc,                     \* the component thread's position
    rule_idx,               \* _handle_send: position of the for loop
    more_values_to_send,    \* _handle_send: local
    value,                  \* _handle_send_single: local
    receive_thread,         \* the receive thread: running, failed
    left_up,                \* history: the tracker left UP and the link was not reset since
    ack,                    \* history, per rule: none, awaiting (RECEIVED), reset
    request_all_sent,       \* history: number of request_all messages sent
    timeout_of,             \* history: the message whose send timed out in the last step
    received                \* history: the message read in the last step, where it was
                            \* read in DOWN or ended the receive thread

\* the state of the classes that are also modelled on their own
VARIABLES
    rx,                     \* one ZmqMsgPackReceiver: position, request, counts
    vs_value,               \* ValueStore._store: topic -> entry.value (None: no entry)
    vs_receivers,           \* ValueStore._store: topic -> entry.receivers
    vs_all,                 \* ValueStore._all_topic_receivers
    vs_locks,               \* the locks of the store that are held
    vs_stack,               \* the set_value calls in progress, innermost last
    vs_sets,                \* the number of set_value calls made
    vs_written,             \* history: topic -> the value stored last
    vs_completed,           \* history: topic -> the value of the set_value that returned last
    vs_last,                \* history: the set_value that returned in this step
    vs_got,                 \* history: the get_value made in this step, topic and result
    vq,                     \* one ValueQueue with its Events and the thread inside receive
    ev,                     \* one Event and the threads that call wait_and_clear
    mgr,                    \* one ComponentManager: registry, id counter, call in progress
    comp,                   \* the Components: thread, requests, trigger flag, hook calls
    sys,                    \* two components, their queues and the store they share
    rec,                    \* one ValueRecorder: queue, settings, write thread, file
    rr,                     \* one recording: settings, values, file, what the reader returned
    wire,                   \* history: the value message that crossed the link in this step
    snd,                    \* one send rule with its queue, the sending thread, a thread in set_value
    xp,                     \* a ValueStore whose receivers expire: lists, expired, calls
    rg,                     \* one ComponentManager, two threads inside register_component
    ws,                     \* a started ValueRecorder: its write thread and the caller of stop
    br                      \* two RemoteServices connected to one another: their send locks and threads

vsVars == <<vs_value, vs_receivers, vs_all, vs_locks, vs_stack, vs_sets, vs_written,
            vs_completed, vs_last, vs_got>>
coreVars == <<rx, vsVars, vq, ev, mgr, comp, sys, rec, rr, wire, snd, xp, rg, ws, br>>

linkVars == <<old_state, pong_queue>>
ruleVars == <<forced_send, send_pending, queue>>
loopVars == <<rule_idx, more_values_to_send, value>>
threadVars == <<trigger_flag, shutdown_request, receive_thread>>
storeVars == <<store>>
histVars == <<left_up, ack, request_all_sent>>
serviceState == <<linkVars, initialized, ruleVars, pc, loopVars, threadVars, storeVars, histVars>>
remoteVars == <<tracker, last_op, serviceState, timeout_of, received>>
serviceVars == <<serviceState, timeout_of, received, coreVars>>

vars == <<tracker, last_op, serviceVars>>

------------------------------------------------------------------------------
(* RemoteStatusTracker *)

_set_remote_state(t, state) ==
    LET t1 == IF state = STATE_UNSURE
              THEN [t EXCEPT !.ping_interval = PingIntervalMin,
                             !.ping_age = PingAgeCap]
              ELSE t
        t2 == IF state = STATE_UP
              THEN [t1 EXCEPT !.ping_interval = PingIntervalMax]
              ELSE t1
    IN [t2 EXCEPT !.remote_state = state]

_send_ping(t) ==
    [t EXCEPT !.ping_age = 0, !.ping_freshness = @ + 1]

\* a mutation of pong_received: the freshness is not compared
pong_received_any_freshness(t, freshness) ==
    LET t1 == IF t.remote_state = STATE_UNSURE
              THEN _set_remote_state(t, STATE_UP) ELSE t
    IN IF t1.remote_state = STATE_UP THEN [t1 EXCEPT !.pong_age = 0] ELSE t1

\* a mutation of pong_received: UP is entered without recording the pong time
pong_received_no_pong_time(t, freshness) ==
    IF freshness # t.ping_freshness THEN t
    ELSE IF t.remote_state = STATE_UNSURE
         THEN _set_remote_state(t, STATE_UP)
         ELSE IF t.remote_state = STATE_UP THEN [t EXCEPT !.pong_age = 0] ELSE t

pong_received(t, freshness) ==
    IF freshness # t.ping_freshness THEN t
    ELSE LET t1 == IF t.remote_state = STATE_UNSURE
                   THEN _set_remote_state(t, STATE_UP) ELSE t
         IN IF t1.remote_state = STATE_UP THEN [t1 EXCEPT !.pong_age = 0] ELSE t1

\* a mutation of run_cyclic: in UP the pong timeout is not awaited
run_cyclic_no_pong_timeout(t) ==
    LET t1 == IF t.remote_state = STATE_UNSURE /\ t.ping_age > t.ping_interval
              THEN LET p == [_send_ping(t) EXCEPT !.ping_interval = 2 * @]
                   IN IF p.ping_interval > PingIntervalMax
                      THEN _set_remote_state(p, STATE_DOWN) ELSE p
              ELSE t
    IN IF t1.remote_state = STATE_UP /\ t1.ping_age > t1.ping_interval
       THEN _set_remote_state(_send_ping(t1), STATE_DOWN)
       ELSE t1

\* a mutation of run_cyclic: in UNSURE the interval is not doubled
run_cyclic_no_doubling(t) ==
    LET t1 == IF t.remote_state = STATE_UNSURE /\ t.ping_age > t.ping_interval
              THEN LET p == _send_ping(t)
                   IN IF p.ping_interval > PingIntervalMax
                      THEN _set_remote_state(p, STATE_DOWN) ELSE p
              ELSE t
    IN IF t1.remote_state = STATE_UP /\ t1.ping_age > t1.ping_interval
       THEN LET p == _send_ping(t1)
            IN IF p.pong_age > PongTimeout
               THEN _set_remote_state(p, STATE_DOWN) ELSE p
       ELSE t1

run_cyclic(t) ==
    LET t1 == IF t.remote_state = STATE_UNSURE /\ t.ping_age > t.ping_interval
              THEN LET p == [_send_ping(t) EXCEPT !.ping_interval = 2 * @]
                   IN IF p.ping_interval > PingIntervalMax
                      THEN _set_remote_state(p, STATE_DOWN) ELSE p
              ELSE t
    IN IF t1.remote_state = STATE_UP /\ t1.ping_age > t1.ping_interval
       THEN LET p == _send_ping(t1)
            IN IF p.pong_age > PongTimeout
               THEN _set_remote_state(p, STATE_DOWN) ELSE p
       ELSE t1

message_received_in_down(t) == _set_remote_state(t, STATE_UNSURE)

sending_timeout(t) == _set_remote_state(t, STATE_UNSURE)

\* datetime.utcnow() read by a later call: 100 ms have passed
time_passes(t) ==
    [t EXCEPT !.ping_age = IF @ < PingAgeCap THEN @ + 1 ELSE @,
              !.pong_age = IF @ < PongAgeCap THEN @ + 1 ELSE @]

TrackerInit ==
    [remote_state |-> STATE_UNSURE,
     ping_interval |-> PingIntervalMin,
     ping_freshness |-> 0,
     ping_age |-> PingAgeCap,
     pong_age |-> PongAgeCap]

\* the freshness values a pong may carry, of those up to n: the peer echoes pings,
\* so any value but the random number the tracker started with, which no ping carried
PongFreshness(n) == (0..n) \ {TrackerInit.ping_freshness}

\* the record of one tracker operation: what ran, the state it found, and whether
\* the freshness it came with is the one of the most recently sent ping
Op(name, f, t) == [op |-> name, before |-> t.remote_state,
                   matched |-> (f = t.ping_freshness)]

\* what the steps of one class leave alone
exceptReceiver == <<remoteVars, vsVars, vq, ev, mgr, comp, sys, rec, rr, wire, snd, xp, rg,
                 ws, br>>
exceptStore == <<remoteVars, rx, vq, ev, mgr, comp, sys, rec, rr, wire, snd, xp, rg, ws, br>>
exceptQueue == <<remoteVars, rx, vsVars, ev, mgr, comp, sys, rec, rr, wire, snd, xp, rg,
                 ws, br>>
exceptEvent == <<remoteVars, rx, vsVars, vq, mgr, comp, sys, rec, rr, wire, snd, xp, rg,
                 ws, br>>
exceptManager == <<remoteVars, rx, vsVars, vq, ev, sys, rec, rr, wire, snd, xp, rg, ws, br>>
exceptSystem == <<remoteVars, rx, vsVars, vq, ev, mgr, comp, rec, rr, wire, snd, xp, rg,
                 ws, br>>
exceptRecorder == <<remoteVars, rx, vsVars, vq, ev, mgr, comp, sys, rr, wire, snd, xp, rg,
                 ws, br>>
exceptRecord == <<remoteVars, rx, vsVars, vq, ev, mgr, comp, sys, rec, wire, snd, xp, rg,
                 ws, br>>
exceptRules == <<tracker, last_op, linkVars, loopVars, shutdown_request, receive_thread,
                 histVars, timeout_of, received, rx, vsVars, vq, ev, mgr, comp, sys, rec,
                 rr, snd, xp, rg, ws, br>>
exceptSend == <<remoteVars, rx, vsVars, vq, ev, mgr, comp, sys, rec, rr, wire, xp, rg, ws, br>>
exceptExpiry == <<remoteVars, rx, vsVars, vq, ev, mgr, comp, sys, rec, rr, wire, snd, rg,
                 ws, br>>
exceptRegister == <<remoteVars, rx, vsVars, vq, ev, mgr, comp, sys, rec, rr, wire, snd, xp,
                 ws, br>>
exceptStop == <<remoteVars, rx, vsVars, vq, ev, mgr, comp, sys, rec, rr, wire, snd, xp, rg, br>>
exceptBridge == <<remoteVars, rx, vsVars, vq, ev, mgr, comp, sys, rec, rr, wire, snd, xp,
                 rg, ws>>

\* the Component objects and the instance names of the manager on its own
Components == {"c1", "c2"}
InstanceNames == {"n1", "n2"}

\* the id counter of a new manager, and what register_component returns on failure
NoId == 0
RegistrationFailed == -1

\* no register_component was called in this step
NoRegistration == [component |-> "", instance_name |-> "", result |-> NoId]

\* the threads that wait for the Event
Waiters == {"w1", "w2"}

\* no request is being handled
NoRequest == [kind |-> "", command |-> "", topic |-> "", known |-> FALSE]

\* the topics and the receivers of the ValueStore on its own
VsTopics == {"t", "u"}
VsReceivers == {"q1", "q2"}

\* the topics add_receiver is called for; "u" has all-topic receivers only
VsSubscribed == {"t"}

\* the value of an entry nothing was stored in; the values stored are 1, 2, ...
NoValue == 0

\* no set_value has returned, no get_value was made
NoCall == [key |-> "", value |-> NoValue, all_copy |-> <<>>, entry_copy |-> <<>>,
           calls |-> <<>>]
NoGet == [key |-> "", result |-> NoValue, idle |-> TRUE]

\* what pop_with_topic returns from an empty queue
NoItem == [value |-> NoValue, topic |-> ""]

\* the topics of the two components that exchange values, and the threads
\* that call set_value there: the component threads and the test thread
SysTopics == {"topic1", "topic2"}
Setters == Components \cup {"main"}
NoSet == [topic |-> "", value |-> None]

\* the two components after configure() and startup(), nothing set
SysInit ==
    [value |-> [t \in SysTopics |-> None],
     queue |-> [c \in Components |-> <<>>],
     lock |-> [c \in Components |-> ""],
     received_value |-> [c \in Components |-> FALSE],
     trigger |-> [c \in Components |-> FALSE],
     pc |-> [t \in Setters |-> IF t = "main" THEN "idle" ELSE "loop"],
     out |-> [t \in Setters |-> NoSet],
     sets |-> [t \in SysTopics |-> <<>>],
     got |-> [c \in Components |-> <<>>]]

\* the set_value calls that reach the recorder, the limits that
\* set_write_queue_size_limit is called with, and the status values the status
\* monitor sets
MaxRecorded == 3
MaxLimit == 2
MaxStatus == 1

\* the limit of a recorder whose limit was never set, int(2**32) in the code:
\* here a number above the size of every queue
MAX_QUEUE_SIZE_LIMIT == MaxRecorded + MaxStatus + 1

\* what Queue.pop returns from an empty queue
NoEntry == [topic |-> "", is_value |-> FALSE]

\* the recorder after start(): an open file, a write thread, nothing queued
RecInit ==
    [queue |-> <<>>, queue_size_limit |-> MAX_QUEUE_SIZE_LIMIT, disabled_topics |-> {},
     pc |-> "pop", qe |-> NoEntry, queue_size |-> 0, file |-> <<>>,
     drop_flag |-> FALSE, sets |-> 0, statuses |-> 0]

\* a recording after start(): no ExtMem topic enabled, nothing written or read
RrInit ==
    [enabled_ext_mem_topics |-> {}, compressed_ext_mem_topics |-> {},
     values |-> <<>>, file |-> <<>>, closed |-> FALSE, records |-> <<>>]

\* bounds: set_value calls on the rule's topic (the values are their numbers), and
\* value messages sent
MaxWrites == 2
MaxSent == 3

\* a send rule after configure, its topic empty; nothing sent
SndInit ==
    [store |-> NoValue, queue |-> <<>>, forced_send |-> FALSE, send_pending |-> FALSE,
     pc |-> "idle", value |-> NoValue, setter |-> "idle", writes |-> 0, sent |-> <<>>]

\* a store with no receiver; no set_value was made
XpInit ==
    [receivers |-> [t \in VsTopics |-> <<>>], all |-> <<>>, expired |-> {},
     reported |-> {}, key |-> "", calls |-> <<>>]

\* the threads that call register_component of one manager at the same time
Registrars == {"r1", "r2"}

\* a new manager; no thread has called it yet
RgInit ==
    [components |-> <<>>, last_comp_id |-> NoId,
     pc |-> [t \in Registrars |-> "idle"],
     component |-> [t \in Registrars |-> ""],
     instance_name |-> [t \in Registrars |-> ""],
     loaded |-> [t \in Registrars |-> NoId],
     comp_id |-> [t \in Registrars |-> NoId]]

\* bound: set_value calls on the store after start()
MaxStopSets == 3

\* the recorder after start(): the queue is registered and empty, the write
\* thread is about to test the stop request, stop has not been called
WsInit ==
    [queue |-> <<>>, file |-> <<>>, stop_request |-> FALSE, expired |-> FALSE,
     thread |-> "test", qe |-> 0, caller |-> "recording", closed |-> FALSE,
     sets |-> 0, at_stop |-> 0]

\* the two services of a bridge, and the values queued for sending by one rule
Services == {"A", "B"}
MaxBridgeQueue == 1

\* two services whose links are up; neither has run _handle_triggers yet
BrInit ==
    [lock_send |-> [s \in Services |-> "free"],
     comp |-> [s \in Services |-> "triggers"],
     recv |-> [s \in Services |-> "receive"],
     inbox |-> [s \in Services |-> <<>>],
     queue |-> [s \in Services |-> 0],
     forced_send |-> [s \in Services |-> FALSE],
     initialized |-> [s \in Services |-> FALSE],
     connected |-> [s \in Services |-> TRUE]]

\* no value message crossed the link
NoWire == [dir |-> "", rule |-> "", topic |-> "", reply |-> ""]

\* the objects of the other classes after construction
CoreInit ==
    /\ rx = [pc |-> "idle", request |-> NoRequest, reads |-> 0, replies |-> 0]
    /\ vs_value = [t \in VsTopics |-> NoValue]
    /\ vs_receivers = [t \in VsTopics |-> <<>>]
    /\ vs_all = <<>>
    /\ vs_locks = {}
    /\ vs_stack = <<>>
    /\ vs_sets = 0
    /\ vs_written = [t \in VsTopics |-> NoValue]
    /\ vs_completed = [t \in VsTopics |-> NoValue]
    /\ vs_last = NoCall
    /\ vs_got = NoGet
    /\ vq = [queue |-> <<>>, events |-> <<>>, lock |-> "", pc |-> "idle", idx |-> 0,
             active |-> {}, received |-> <<>>, pops |-> 0, popped |-> NoItem]
    /\ ev = [flag |-> FALSE, expired |-> FALSE, triggers |-> 0,
             pc |-> [w \in Waiters |-> "idle"]]
    /\ mgr = [components |-> <<>>, last_comp_id |-> NoId, call |-> "", pc |-> "idle",
              idx |-> 0, touched |-> <<>>, registration |-> NoRegistration]
    /\ comp = [c \in Components |->
                 [thread |-> "none", orphan |-> "none", startup_request |-> FALSE,
                  shutdown_request |-> FALSE, trigger |-> FALSE, active |-> FALSE,
                  configured |-> 0, stimulated |-> FALSE, started |-> "never"]]
    /\ wire = NoWire
    /\ br = BrInit
    /\ ws = WsInit
    /\ rg = RgInit
    /\ xp = XpInit
    /\ snd = SndInit
    /\ sys = SysInit
    /\ rec = RecInit
    /\ rr = RrInit

------------------------------------------------------------------------------
(* The tracker on its own, driven as RemotePair drives it *)

\* the service after configure() and startup(): rules and queues exist, the sender
\* is connected, the threads run
Init ==
    /\ tracker = TrackerInit
    /\ last_op = Op("init", -1, TrackerInit)
    /\ old_state = STATE_UNSURE
    /\ pong_queue = <<>>
    /\ initialized = FALSE
    /\ forced_send = [k \in Keys |-> FALSE]
    /\ send_pending = [k \in Keys |-> FALSE]
    /\ queue = [k \in Keys |-> <<>>]
    /\ store = [t \in Topics |-> None]
    /\ trigger_flag = FALSE
    /\ shutdown_request = FALSE
    /\ pc = "wait"
    /\ rule_idx = 0
    /\ more_values_to_send = FALSE
    /\ value = None
    /\ receive_thread = "running"
    /\ left_up = FALSE
    /\ ack = [k \in Keys |-> "none"]
    /\ request_all_sent = 0
    /\ timeout_of = ""
    /\ received = NoMessage
    /\ CoreInit

Tick ==
    /\ tracker' = time_passes(tracker)
    /\ last_op' = Op("tick", -1, tracker)
    /\ UNCHANGED serviceVars

\* RemotePair.cycle
RunCyclic ==
    /\ run_cyclic(tracker).ping_freshness <= MaxFreshness
    /\ tracker' = run_cyclic(tracker)
    /\ last_op' = Op("run_cyclic", -1, tracker)
    /\ UNCHANGED serviceVars

\* RemotePair.pong_received
PongReceived ==
    \E f \in PongFreshness(MaxFreshness) :
        /\ tracker' = pong_received(tracker, f)
        /\ last_op' = Op("pong_received", f, tracker)
        /\ UNCHANGED serviceVars

\* RemotePair.receive, after a message was read while the tracker is DOWN
MessageReceivedInDown ==
    /\ tracker.remote_state = STATE_DOWN
    /\ tracker' = message_received_in_down(tracker)
    /\ last_op' = Op("message_received_in_down", -1, tracker)
    /\ UNCHANGED serviceVars

\* RemotePair.send_value answered TIMEOUT; values are sent while connected only
SendingTimeout ==
    /\ tracker.remote_state = STATE_UP
    /\ tracker' = sending_timeout(tracker)
    /\ last_op' = Op("sending_timeout", -1, tracker)
    /\ UNCHANGED serviceVars

NextTracker ==
    \/ Tick
    \/ RunCyclic
    \/ PongReceived
    \/ MessageReceivedInDown
    \/ SendingTimeout

SpecTracker == Init /\ [][NextTracker]_vars

\* the cyclic trigger thread keeps calling run_cyclic, and time passes
FairTracker == SpecTracker /\ WF_vars(RunCyclic) /\ WF_vars(Tick)


------------------------------------------------------------------------------
(* RemoteService with its RemotePair: the component thread *)

\* a mutation of RemotePair.connected: the tracker's state is not consulted
connected_always == TRUE

connected == tracker.remote_state = STATE_UP

\* the tracker left UP in this step
LeavesUp(t1, t2) == t1.remote_state = STATE_UP /\ t2.remote_state # STATE_UP

\* a step that sends nothing, or whose send is answered in time
NoTimeout ==
    timeout_of' = "" /\ received' = NoMessage /\ UNCHANGED <<last_op, coreVars>>

\* a step that sends one message of the given kind, answered r
Sends(kind, r) ==
    /\ timeout_of' = IF r = "TIMEOUT" THEN kind ELSE ""
    /\ received' = NoMessage
    /\ UNCHANGED <<last_op, coreVars>>

\* ValueQueue.receive
receive_drops_newest(q, maxlen, v) ==
    IF 0 < maxlen /\ maxlen <= Len(q) THEN q ELSE Append(q, v)
receive(q, maxlen, v) ==
    IF 0 < maxlen /\ maxlen <= Len(q) THEN Append(Tail(q), v) ELSE Append(q, v)

\* ValueQueue.pop
pop(q) == IF Len(q) > 0 THEN Tail(q) ELSE q

\* Component._thread_main: wait_and_clear in the loop "while not shutdown_request"
CompWait ==
    /\ pc = "wait"
    /\ ~shutdown_request
    /\ trigger_flag
    /\ trigger_flag' = FALSE
    /\ pc' = "observe"
    /\ NoTimeout
    /\ UNCHANGED <<tracker, linkVars, initialized, ruleVars, loopVars,
                   shutdown_request, receive_thread, storeVars, histVars>>

\* Component._thread_main: the loop ends, shutdown() runs
CompExit ==
    /\ pc = "wait"
    /\ shutdown_request
    /\ pc' = "done"
    /\ NoTimeout
    /\ UNCHANGED <<tracker, linkVars, initialized, ruleVars, loopVars,
                   threadVars, storeVars, histVars>>

\* RemoteService.reset_pending_values
reset_pending_values(sp) == [k \in Keys |-> FALSE]

\* RemotePair.observe_state_change: the comparison of _oldState with the state
state_changed(old, curr) == old # curr

\* _handle_triggers, "if not shutdown_request: handler()": observe_state_change,
\* with _change_state_from_up (reconnect, reset_pending_values)
CompObserve ==
    /\ pc = "observe"
    /\ IF shutdown_request
       THEN /\ pc' = "wait"
            /\ UNCHANGED <<old_state, send_pending, left_up, ack>>
       ELSE LET curr == tracker.remote_state
                from_up == state_changed(old_state, curr) /\ old_state = STATE_UP
            IN /\ pc' = "init"
               /\ old_state' = IF state_changed(old_state, curr) THEN curr ELSE old_state
               /\ send_pending' = IF from_up THEN reset_pending_values(send_pending)
                                  ELSE send_pending
               /\ left_up' = IF from_up THEN FALSE ELSE left_up
               /\ ack' = IF from_up
                         THEN [k \in Keys |-> IF ack[k] = "awaiting" THEN "reset" ELSE ack[k]]
                         ELSE ack
    /\ NoTimeout
    /\ UNCHANGED <<tracker, pong_queue, initialized, forced_send, queue, loopVars,
                   threadVars, storeVars, request_all_sent>>

\* a mutation of the first-connection test: _initialized is not consulted
first_connection_always(init, conn) == conn

\* _handle_triggers: the test before send_request_all
first_connection(init, conn) == ~init /\ conn

\* _handle_triggers: send_request_all on the first connection; and the first
\* line of _handle_send, "if not self._initialized: return"
CompInit ==
    /\ pc = "init"
    /\ IF first_connection(initialized, connected)
       THEN /\ initialized' = TRUE
            /\ request_all_sent' = request_all_sent + 1
            /\ \E r \in PlainReplies : Sends("request_all", r)
       ELSE /\ UNCHANGED <<initialized, request_all_sent>>
            /\ NoTimeout
    /\ pc' = IF initialized' THEN "send_loop" ELSE "cycle"
    /\ UNCHANGED <<tracker, linkVars, ruleVars, loopVars, threadVars, storeVars,
                   left_up, ack>>

\* _handle_send: one turn of "while more_values_to_send", taking _lock_send
CompSendLoop ==
    /\ pc = "send_loop"
    /\ more_values_to_send' = FALSE
    /\ rule_idx' = 1
    /\ pc' = "send_check"
    /\ NoTimeout
    /\ UNCHANGED <<tracker, linkVars, initialized, ruleVars, value, threadVars,
                   storeVars, histVars>>

\* _handle_send: the head of "for snd_rule in ...", and the break when not connected
CompSendCheck ==
    /\ pc = "send_check"
    /\ IF rule_idx > Len(SendKeys) \/ ~connected
       THEN /\ pc' = IF more_values_to_send THEN "send_loop" ELSE "cycle"
            /\ rule_idx' = 0
            /\ more_values_to_send' = FALSE
       ELSE /\ pc' = "send_single"
            /\ UNCHANGED <<rule_idx, more_values_to_send>>
    /\ NoTimeout
    /\ UNCHANGED <<tracker, linkVars, initialized, ruleVars, value,
                   threadVars, storeVars, histVars>>

\* _handle_send: after _handle_send_single returned, "if forced_send or not
\* queue.empty: more_values_to_send = True", and on to the next rule
NextRule(k, fs, q) ==
    /\ more_values_to_send' = (more_values_to_send \/ fs[k] \/ q[k] # <<>>)
    /\ rule_idx' = rule_idx + 1
    /\ value' = None
    /\ pc' = "send_check"

\* a mutation of the guard of _handle_send_single: send_pending is not consulted
may_send_ignores_pending(pending) == TRUE

\* _handle_send_single: "if state.send_pending or queue is None: return"
may_send(pending) == ~pending

\* _handle_send_single up to the transmission of a queued value (peek), or up to
\* get_value of a forced send
CompSendSingle ==
    /\ pc = "send_single"
    /\ LET k == SendKeys[rule_idx] IN
       IF ~may_send(send_pending[k])
       THEN NextRule(k, forced_send, queue)
       ELSE IF queue[k] # <<>>
       THEN /\ value' = Head(queue[k])
            /\ pc' = "queue_reply"
            /\ UNCHANGED <<rule_idx, more_values_to_send>>
       ELSE IF forced_send[k]
       THEN /\ value' = store[SendTopic[k]]
            /\ pc' = "forced_check"
            /\ UNCHANGED <<rule_idx, more_values_to_send>>
       ELSE NextRule(k, forced_send, queue)
    /\ NoTimeout
    /\ UNCHANGED <<tracker, linkVars, initialized, ruleVars, threadVars, storeVars,
                   histVars>>

\* _handle_send_single: "if result == RECEIVED: state.send_pending = True"
pending_after(pending, result) == IF result = "RECEIVED" THEN TRUE ELSE pending

\* RemotePair.send_value: "if result == TIMEOUT: sending_timeout()"
send_value_result(t, result) == IF result = "TIMEOUT" THEN sending_timeout(t) ELSE t

\* _handle_send_single, queue branch: the reply to the value sent
CompQueueReply ==
    /\ pc = "queue_reply"
    /\ \E result \in ValueReplies :
        LET k == SendKeys[rule_idx]
            done == result \in {"INJECTED", "RECEIVED", "REJECTED"}
            q2 == IF done THEN [queue EXCEPT ![k] = pop(@)] ELSE queue
            fs2 == IF done THEN [forced_send EXCEPT ![k] = FALSE] ELSE forced_send
        IN /\ tracker' = send_value_result(tracker, result)
           /\ queue' = q2
           /\ forced_send' = fs2
           /\ send_pending' = IF done
                              THEN [send_pending EXCEPT ![k] = pending_after(@, result)]
                              ELSE send_pending
           /\ ack' = IF result = "RECEIVED" THEN [ack EXCEPT ![k] = "awaiting"] ELSE ack
           /\ left_up' = (left_up \/ LeavesUp(tracker, tracker'))
           /\ NextRule(k, fs2, q2)
           /\ Sends("value", result)
    /\ UNCHANGED <<linkVars, initialized, threadVars, storeVars, request_all_sent>>

\* _handle_send_single, forced branch: after get_value, the second look at the
\* queue, the test for None and the transmission of the stored value
CompForcedCheck ==
    /\ pc = "forced_check"
    /\ LET k == SendKeys[rule_idx] IN
       IF queue[k] # <<>> \/ value = None
       THEN /\ forced_send' = [forced_send EXCEPT ![k] = FALSE]
            /\ NextRule(k, [forced_send EXCEPT ![k] = FALSE], queue)
       ELSE /\ pc' = "forced_reply"
            /\ UNCHANGED <<forced_send, loopVars>>
    /\ NoTimeout
    /\ UNCHANGED <<tracker, linkVars, initialized, send_pending, queue, threadVars,
                   storeVars, histVars>>

\* _handle_send_single, forced branch: the reply to the value sent
CompForcedReply ==
    /\ pc = "forced_reply"
    /\ \E result \in ValueReplies :
        LET k == SendKeys[rule_idx]
            done == result \in {"INJECTED", "RECEIVED", "REJECTED"}
            fs2 == IF done THEN [forced_send EXCEPT ![k] = FALSE] ELSE forced_send
        IN /\ tracker' = send_value_result(tracker, result)
           /\ forced_send' = fs2
           /\ send_pending' = [send_pending EXCEPT ![k] = pending_after(@, result)]
           /\ ack' = IF result = "RECEIVED" THEN [ack EXCEPT ![k] = "awaiting"] ELSE ack
           /\ left_up' = (left_up \/ LeavesUp(tracker, tracker'))
           /\ NextRule(k, fs2, queue)
           /\ Sends("value", result)
    /\ UNCHANGED <<linkVars, initialized, queue, threadVars, storeVars, request_all_sent>>

\* _handle_injected_rejected reports nothing (_inserted_topics and _rejected_topics
\* are empty: the pending-value loop appends to them only for a pending_value, which
\* nothing sets); then RemotePair.cycle: run_cyclic, its ping sent by
\* RemotePair._send_ping
CompCycle ==
    /\ pc = "cycle"
    /\ run_cyclic(tracker).ping_freshness <= MaxPings
    /\ tracker' = run_cyclic(tracker)
    /\ left_up' = (left_up \/ LeavesUp(tracker, tracker'))
    /\ pc' = "pongs"
    /\ IF tracker'.ping_freshness # tracker.ping_freshness
       THEN \E r \in PlainReplies : Sends("ping", r)
       ELSE NoTimeout
    /\ UNCHANGED <<linkVars, initialized, ruleVars, loopVars, threadVars, storeVars,
                   ack, request_all_sent>>

\* RemotePair.cycle: _send_pongs, under RemotePair._lock
CompPongs ==
    /\ pc = "pongs"
    /\ pong_queue' = <<>>
    /\ pc' = "wait"
    /\ IF pong_queue # <<>>
       THEN \E r \in PlainReplies : Sends("pong", r)
       ELSE NoTimeout
    /\ UNCHANGED <<tracker, old_state, initialized, ruleVars, loopVars, threadVars,
                   storeVars, histVars>>

------------------------------------------------------------------------------
(* The receive thread: RemotePair.receive over ZmqMsgPackReceiver.receive *)

\* _lock_send is held by the component thread during one pass over the rules
lock_send_held == pc \in {"send_check", "send_single", "queue_reply",
                          "forced_check", "forced_reply"}

\* RemotePair._lock is held by the component thread while a value awaits its reply
pair_lock_held == pc \in {"queue_reply", "forced_reply"}

\* _receive_thread_main: "while not self.shutdown_request"
Receiving == receive_thread = "running" /\ ~shutdown_request

\* RemotePair.receive: "if success and remote_state == STATE_DOWN:
\* message_received_in_down()"
after_receive(t) ==
    IF t.remote_state = STATE_DOWN THEN message_received_in_down(t) ELSE t

\* the receive thread reads one message of the given kind, naming the given topic
Reads(kind, topic) ==
    /\ received' = IF tracker.remote_state = STATE_DOWN \/ kind \in BlockedCommands
                   THEN [kind |-> kind, topic |-> topic] ELSE NoMessage
    /\ timeout_of' = ""
    /\ UNCHANGED <<last_op, coreVars>>

\* _receive_ping, RemotePair.ping_received
RecvPing ==
    /\ Receiving
    /\ ~pair_lock_held
    /\ Len(pong_queue) < MaxPongQueue
    /\ \E f \in PeerFreshness : pong_queue' = Append(pong_queue, f)
    /\ trigger_flag' = TRUE
    /\ tracker' = after_receive(tracker)
    /\ Reads("ping", "")
    /\ UNCHANGED <<old_state, initialized, ruleVars, pc, loopVars, shutdown_request,
                   receive_thread, storeVars, histVars>>

\* _receive_pong, RemotePair.pong_received
RecvPong ==
    /\ Receiving
    /\ \E f \in PongFreshness(MaxPings) :
        tracker' = after_receive(pong_received(tracker, f))
    /\ Reads("pong", "")
    /\ UNCHANGED serviceState

\* _receive_command "sendAll": RemotePair.request_all_received, RemoteService.send_all
RecvSendAll ==
    /\ Receiving
    /\ ~lock_send_held
    /\ forced_send' = [k \in Keys |-> TRUE]
    /\ trigger_flag' = TRUE
    /\ tracker' = after_receive(tracker)
    /\ Reads("sendAll", "")
    /\ UNCHANGED <<linkVars, initialized, send_pending, queue, pc, loopVars,
                   shutdown_request, receive_thread, storeVars, histVars>>

\* _receive_command "valueInjected" / "valueRejected" with a topic: the receiver
\* calls RemotePair.blocked_value_injected_received(topic), which takes no topic;
\* the TypeError ends _receive_thread_main, whose handler calls abort()
\* (_shutdown_request.set(), trigger())
RecvBlockedValue ==
    /\ Receiving
    /\ \E command \in BlockedCommands, topic \in CommandTopics : Reads(command, topic)
    /\ receive_thread' = "failed"
    /\ shutdown_request' = TRUE
    /\ trigger_flag' = TRUE
    /\ UNCHANGED <<tracker, linkVars, initialized, ruleVars, pc, loopVars, storeVars,
                   histVars>>

\* _receive_command with any other command: a warning
RecvUnsupportedCommand ==
    /\ Receiving
    /\ tracker' = after_receive(tracker)
    /\ Reads("command", "")
    /\ UNCHANGED serviceState

\* RemoteService.value_received
value_received(topic) ==
    IF ~initialized THEN "REJECTED"
    ELSE IF topic \notin ReceiveKeys THEN "REJECTED"
    ELSE "INJECTED"

\* _receive_value; a value of a type the TypeRegistry does not know is REJECTED,
\* any other goes to RemoteService.value_received, which stores it under the topic
\* it came with
RecvValue ==
    /\ Receiving
    /\ \E topic \in InTopics, known \in BOOLEAN :
        LET result == IF known THEN value_received(topic) ELSE "REJECTED" IN
        /\ store' = IF result = "INJECTED" THEN [store EXCEPT ![topic] = V] ELSE store
        /\ Reads("value", topic)
    /\ tracker' = after_receive(tracker)
    /\ UNCHANGED <<linkVars, initialized, ruleVars, pc, loopVars, threadVars,
                   histVars>>

\* ZmqMsgPackReceiver.receive with a kind that is none of ping, pong, command,
\* value: a warning, "return False", so RemotePair.receive does nothing
RecvUnknownKind ==
    /\ Receiving
    /\ Reads("unknown", "")
    /\ UNCHANGED <<tracker, serviceState>>

------------------------------------------------------------------------------
(* The other threads *)

\* _trigger_cyclic_thread_main
TriggerCyclic ==
    /\ ~shutdown_request
    /\ ~trigger_flag
    /\ trigger_flag' = TRUE
    /\ NoTimeout
    /\ UNCHANGED <<tracker, linkVars, initialized, ruleVars, pc, loopVars,
                   shutdown_request, receive_thread, storeVars, histVars>>

\* ValueStore.set_value of a Value on the local topic of a send rule, by some
\* component: the entry's value is replaced and the receivers are notified;
\* ValueQueue.receive appends and triggers the component's Event
SetValue ==
    /\ \E k \in Keys :
        /\ store' = [store EXCEPT ![SendTopic[k]] = V]
        /\ queue' = [j \in Keys |->
                        IF SendTopic[j] = SendTopic[k]
                        THEN receive(queue[j], QueueLength[j], V)
                        ELSE queue[j]]
    /\ trigger_flag' = TRUE
    /\ NoTimeout
    /\ UNCHANGED <<tracker, linkVars, initialized, forced_send, send_pending, pc,
                   loopVars, shutdown_request, receive_thread, histVars>>

\* a long time passes: both time stamps are older than every interval
LongPause ==
    /\ tracker' = [tracker EXCEPT !.ping_age = PingAgeCap, !.pong_age = PongAgeCap]
    /\ NoTimeout
    /\ UNCHANGED serviceState

Next ==
    \/ CompWait
    \/ CompExit
    \/ CompObserve
    \/ CompInit
    \/ CompSendLoop
    \/ CompSendCheck
    \/ CompSendSingle
    \/ CompQueueReply
    \/ CompForcedCheck
    \/ CompForcedReply
    \/ CompCycle
    \/ CompPongs
    \/ RecvPing
    \/ RecvPong
    \/ RecvSendAll
    \/ RecvBlockedValue
    \/ RecvUnsupportedCommand
    \/ RecvValue
    \/ RecvUnknownKind
    \/ TriggerCyclic
    \/ SetValue
    \/ LongPause

Spec == Init /\ [][Next]_vars

------------------------------------------------------------------------------
(* The heartbeat state machine: properties of SpecTracker and FairTracker *)

\* the step is a call of run_cyclic that found the tracker in the given state
RunCyclicIn(state) ==
    last_op'.op = "run_cyclic" /\ tracker.remote_state = state

\* the step sent a ping
PingSent == tracker'.ping_freshness # tracker.ping_freshness

\* the pings that take an UNSURE tracker with the given interval to DOWN
RECURSIVE PingsToDown(_)
PingsToDown(interval) ==
    IF 2 * interval > PingIntervalMax THEN 1 ELSE 1 + PingsToDown(2 * interval)

\* C5, the steps: a step that enters UNSURE sets the interval to ping_interval_min;
\* a run_cyclic in UNSURE that sends a ping doubles the interval, and it leaves
\* UNSURE (for DOWN) exactly when the doubled interval exceeds ping_interval_max;
\* a run_cyclic in UNSURE that sends no ping changes neither state nor interval
C5_Steps ==
    [][ /\ (tracker.remote_state # STATE_UNSURE /\ tracker'.remote_state = STATE_UNSURE
              => tracker'.ping_interval = PingIntervalMin)
        /\ (RunCyclicIn(STATE_UNSURE) /\ PingSent
              => /\ tracker'.ping_interval = 2 * tracker.ping_interval
                 /\ tracker'.remote_state =
                        IF 2 * tracker.ping_interval > PingIntervalMax
                        THEN STATE_DOWN ELSE STATE_UNSURE)
        /\ (RunCyclicIn(STATE_UNSURE) /\ ~PingSent
              => /\ tracker'.ping_interval = tracker.ping_interval
                 /\ tracker'.remote_state = STATE_UNSURE) ]_vars

\* C5: in UNSURE the ping interval is ping_interval_min on entry and is doubled by
\* every run_cyclic that sends a ping, the tracker moves to DOWN exactly when the
\* doubled interval exceeds ping_interval_max, and an UNSURE tracker (one that can
\* still send the pings this takes) leaves UNSURE: with no matching pong, for DOWN
C5_UnsureBackoff ==
    /\ C5_Steps
    /\ (tracker.remote_state = STATE_UNSURE
          /\ tracker.ping_freshness + PingsToDown(tracker.ping_interval) <= MaxFreshness)
         ~> (tracker.remote_state # STATE_UNSURE)

\* C5 happens: run_cyclic found the tracker UNSURE, sent the ping that doubled the
\* interval beyond ping_interval_max, and moved it to DOWN
C5_Witness ==
    /\ last_op.op = "run_cyclic"
    /\ last_op.before = STATE_UNSURE
    /\ tracker.remote_state = STATE_DOWN
    /\ tracker.ping_interval > PingIntervalMax
    /\ tracker.ping_freshness = PingsToDown(PingIntervalMin)

\* C6: pong_received(f) with f the freshness of the most recently sent ping, called
\* while the tracker is UNSURE, moves the tracker to UP, sets the ping interval to
\* ping_interval_max and records the pong time (the pong is of age 0)
C6_MatchingPongInUnsure ==
    [][ last_op'.op = "pong_received" /\ last_op'.matched
          /\ tracker.remote_state = STATE_UNSURE
        => /\ tracker'.remote_state = STATE_UP
           /\ tracker'.ping_interval = PingIntervalMax
           /\ tracker'.pong_age = 0
           /\ tracker'.ping_age = tracker.ping_age
           /\ tracker'.ping_freshness = tracker.ping_freshness ]_vars

\* C6 happens: a matching pong found the tracker UNSURE, with an interval and a pong
\* time other than the ones it leaves
C6_Witness ==
    /\ last_op.op = "pong_received"
    /\ last_op.matched
    /\ last_op.before = STATE_UNSURE
    /\ tracker.ping_freshness > 1
    /\ tracker.remote_state = STATE_UP

C8_StalePongIgnored ==
    [][ last_op'.op = "pong_received" /\ ~last_op'.matched
        => tracker' = tracker ]_vars

\* C8 happens: a stale pong found the tracker UNSURE, where a matching one would
\* have moved it to UP
C8_Witness ==
    /\ last_op.op = "pong_received"
    /\ ~last_op.matched
    /\ last_op.before = STATE_UNSURE
    /\ tracker.remote_state = STATE_UNSURE
    /\ tracker.ping_freshness > 0

------------------------------------------------------------------------------
(* The service: properties of Spec *)

\* the positions at which a value is on the wire, awaiting its reply
SendingPcs == {"queue_reply", "forced_reply"}

\* the step transmits a value (from the queue or as a forced send) for the rule
\* SendKeys[rule_idx]
ValueSent == pc \notin SendingPcs /\ pc' \in SendingPcs

\* C1 as stated: after a send of a value for a rule was answered RECEIVED, no
\* further value for that rule is sent (from its queue or as a forced send) until a
\* valueInjected or valueRejected for the rule's topic has been processed; no such
\* message is ever processed here, so: no value is sent for a rule that ever got
\* RECEIVED
C1_AsStated ==
    [][ValueSent => ack[SendKeys[rule_idx]] = "none"]_vars

\* C1, amended: after a send of a value for a rule was answered RECEIVED, no further
\* value for that rule is sent (from its queue or as a forced send) until the link
\* was seen to leave UP and reset_pending_values ran (or a valueInjected or
\* valueRejected for the rule's topic was processed)
C1_NoSendWhilePending ==
    [][ValueSent => ack[SendKeys[rule_idx]] # "awaiting"]_vars

\* C1 happens: a value is on the wire for a rule whose RECEIVED was followed by
\* reset_pending_values only
C1_Witness ==
    /\ pc \in SendingPcs
    /\ ack[SendKeys[rule_idx]] = "reset"

\* C2: when the receiver reads valueInjected(topic) or valueRejected(topic), the
\* send rule of that topic has send_pending = False afterwards, the component is
\* triggered, and the receive loop keeps running
C2_BlockedValueRelayed ==
    [][ received'.kind \in BlockedCommands
        => /\ receive_thread' = "running"
           /\ ~shutdown_request'
           /\ trigger_flag'
           /\ (received'.topic \in Keys => ~send_pending'[received'.topic]) ]_vars

\* C3: after every transition of the tracker away from UP, however short-lived, the
\* sender is reconnected and every send_pending is reset (_change_state_from_up)
\* before any further value is sent
C3_ResetBeforeNextSend ==
    [][ValueSent => ~left_up]_vars

\* C4: request_all is sent exactly once, in the first trigger cycle that finds the
\* link connected: none is sent before (while _initialized is False none was sent),
\* the cycle whose test finds the link connected for the first time sends one, and no
\* later cycle sends another
C4_RequestAllOnce ==
    /\ [](request_all_sent = IF initialized THEN 1 ELSE 0)
    /\ [][ request_all_sent' # request_all_sent
           => pc = "init" /\ ~initialized /\ connected /\ request_all_sent = 0 ]_vars
    /\ [][ pc = "init" /\ pc' # "init" /\ ~initialized /\ connected
           => request_all_sent' = 1 ]_vars

\* C4 happens: a later trigger cycle, after the request_all was sent, is at the test
\* and finds the link connected
C4_Witness ==
    /\ pc = "init"
    /\ initialized
    /\ connected
    /\ request_all_sent = 1

\* C9: while the tracker is DOWN no ping is sent, and every message read while DOWN
\* (ping, pong, command, value, or of unknown kind) moves the tracker to UNSURE
C9_DownUntilMessage ==
    [][ /\ (tracker.remote_state = STATE_DOWN
              => tracker'.ping_freshness = tracker.ping_freshness)
        /\ (tracker.remote_state = STATE_DOWN /\ received'.kind # ""
              => tracker'.remote_state = STATE_UNSURE) ]_vars

\* C10: every send through RemotePair that times out (value, ping, pong,
\* request_all) leaves the tracker UNSURE, by sending_timeout
C10_TimeoutReported ==
    [][timeout_of' # "" => tracker'.remote_state = STATE_UNSURE]_vars

------------------------------------------------------------------------------
(* ZmqMsgPackReceiver on its own: one request after the other *)

\* bound: requests one run of the receiver reads
MaxRequests == 3

\* the requests a peer may send: kind, and what follows the kind
RxRequests ==
    {[kind |-> k, command |-> "", topic |-> "", known |-> FALSE] :
        k \in {"ping", "pong", "unknown"}}
    \cup {[kind |-> "command", command |-> c, topic |-> "", known |-> FALSE] :
        c \in {"sendAll", "unsupported"}}
    \cup {[kind |-> "command", command |-> c, topic |-> t, known |-> FALSE] :
        c \in BlockedCommands, t \in CommandTopics}
    \cup {[kind |-> "value", command |-> "", topic |-> t, known |-> b] :
        t \in InTopics, b \in BOOLEAN}

\* the calls of _send_response that receive() makes for one request: _receive_ping,
\* _receive_pong, the three branches of _receive_command that know the command, and
\* both ends of _receive_value make one; the else branches of _receive_command and
\* of receive make none
replies_sent(req) ==
    IF req.kind \in {"ping", "pong", "value"} THEN 1
    ELSE IF req.kind = "command"
              /\ req.command \in {"sendAll", "valueInjected", "valueRejected"} THEN 1
    ELSE 0

\* the listener call raises: RemotePair.blocked_value_injected_received and
\* blocked_value_rejected_received take no topic
listener_raises(req) == req.kind = "command" /\ req.command \in BlockedCommands

\* ZmqMsgPackReceiver.receive: the kind of the next request is read
ReceiverRead ==
    /\ rx.pc = "idle"
    /\ rx.reads < MaxRequests
    /\ \E req \in RxRequests :
        rx' = [rx EXCEPT !.pc = "handling", !.request = req, !.reads = @ + 1]
    /\ UNCHANGED exceptReceiver

\* ZmqMsgPackReceiver.receive: nothing arrives within the timeout, "return False"
ReceiverTimeout ==
    /\ rx.pc = "idle"
    /\ rx' = [rx EXCEPT !.request = NoRequest]
    /\ UNCHANGED exceptReceiver

\* ZmqMsgPackReceiver.receive: the rest of the request is read and handled, up to
\* the return of receive() or the exception of the listener
ReceiverHandle ==
    /\ rx.pc = "handling"
    /\ rx' = [rx EXCEPT !.pc = IF listener_raises(rx.request) THEN "failed" ELSE "idle",
                        !.replies = @ + replies_sent(rx.request)]
    /\ UNCHANGED exceptReceiver

NextReceiver ==
    \/ ReceiverRead
    \/ ReceiverTimeout
    \/ ReceiverHandle

SpecReceiver == Init /\ [][NextReceiver]_vars

\* C11: for every request that receive() reads (ping, pong, any command, a value of
\* known or unknown type, a message of unknown kind) the receiver sends exactly one
\* reply before it reads the next request: whenever no request is being handled, as
\* many replies were sent as requests were read
C11_OneReplyPerRequest ==
    rx.pc # "handling" => rx.replies = rx.reads


(* ValueStore on its own: registration, set_value with its notifications,   *)
(* get_value; a receiver may call the store again from inside receive       *)

\* bound: set_value calls of one run, the values are their numbers
MaxSets == 2

\* add_receiver, add_all_topic_receiver: append unless the same object is in the list
registered(receivers, receiver) ==
    IF \E i \in 1..Len(receivers) : receivers[i] = receiver
    THEN receivers
    ELSE Append(receivers, receiver)

\* the locks set_value holds once its with-blocks are left
locks_kept_for_notification(held) == held
locks_after_with_block(held) == {}

\* get_value: the value of the entry, None (NoValue) without an entry
get_value_reads_other_entry(values, key) == values[CHOOSE t \in VsTopics : t # key]
get_value(values, key) == values[key]

\* the set_value call that is executing
Top == vs_stack[Len(vs_stack)]

\* a call of the store can be made: from outside, or from inside a receive
CallerRuns == IF vs_stack = <<>> THEN TRUE ELSE Top.pc = "in_receive"

\* the locks of the store can be taken
LocksFree == vs_locks = {}

\* the receivers one set_value notifies, in the order of its two loops
Notified(frame) == frame.all_copy \o frame.entry_copy

StoreAddReceiver ==
    /\ CallerRuns
    /\ LocksFree
    /\ \E key \in VsSubscribed, receiver \in VsReceivers :
        vs_receivers' = [vs_receivers EXCEPT ![key] = registered(@, receiver)]
    /\ UNCHANGED <<vs_value, vs_all, vs_locks, vs_stack, vs_sets, vs_written,
                   vs_completed>>
    /\ vs_got' = NoGet
    /\ vs_last' = NoCall
    /\ UNCHANGED exceptStore

StoreAddAllTopicReceiver ==
    /\ CallerRuns
    /\ LocksFree
    /\ \E receiver \in VsReceivers : vs_all' = registered(vs_all, receiver)
    /\ UNCHANGED <<vs_value, vs_receivers, vs_locks, vs_stack, vs_sets, vs_written,
                   vs_completed>>
    /\ vs_got' = NoGet
    /\ vs_last' = NoCall
    /\ UNCHANGED exceptStore

StoreGetValue ==
    /\ CallerRuns
    /\ LocksFree
    /\ \E key \in VsTopics :
        vs_got' = [key |-> key, result |-> get_value(vs_value, key),
                   idle |-> vs_stack = <<>>]
    /\ UNCHANGED <<vs_value, vs_receivers, vs_all, vs_locks, vs_stack, vs_sets,
                   vs_written, vs_completed>>
    /\ vs_last' = NoCall
    /\ UNCHANGED exceptStore

\* set_value up to the end of the inner with-block
StoreSetValueEnter ==
    /\ CallerRuns
    /\ LocksFree
    /\ vs_sets < MaxSets
    /\ \E key \in VsTopics :
        LET v == vs_sets + 1 IN
        /\ vs_locks' = {"_lock", "entry_lock"}
        /\ vs_value' = [vs_value EXCEPT ![key] = v]
        /\ vs_written' = [vs_written EXCEPT ![key] = v]
        /\ vs_stack' = Append(vs_stack,
               [key |-> key, value |-> v, pc |-> "locked", idx |-> 0,
                all_copy |-> vs_all, entry_copy |-> vs_receivers[key],
                calls |-> <<>>])
        /\ vs_sets' = v
    /\ UNCHANGED <<vs_receivers, vs_all, vs_completed>>
    /\ vs_got' = NoGet
    /\ vs_last' = NoCall
    /\ UNCHANGED exceptStore

\* set_value leaves both with-blocks
StoreSetValueLeave ==
    /\ vs_stack # <<>>
    /\ Top.pc = "locked"
    /\ vs_locks' = locks_after_with_block(vs_locks)
    /\ vs_stack' = [vs_stack EXCEPT ![Len(vs_stack)].pc = "notify"]
    /\ UNCHANGED <<vs_value, vs_receivers, vs_all, vs_sets, vs_written,
                   vs_completed>>
    /\ vs_got' = NoGet
    /\ vs_last' = NoCall
    /\ UNCHANGED exceptStore

\* _notify_receivers_and_cleanup: the next r.receive(key, value) is called
StoreNotify ==
    /\ vs_stack # <<>>
    /\ Top.pc = "notify"
    /\ Top.idx < Len(Notified(Top))
    /\ vs_stack' = [vs_stack EXCEPT ![Len(vs_stack)] =
           [@ EXCEPT !.pc = "in_receive", !.idx = @ + 1,
                     !.calls = Append(@, Notified(Top)[Top.idx + 1])]]
    /\ UNCHANGED <<vs_value, vs_receivers, vs_all, vs_locks, vs_sets, vs_written,
                   vs_completed>>
    /\ vs_got' = NoGet
    /\ vs_last' = NoCall
    /\ UNCHANGED exceptStore

\* r.receive returns
StoreReceiveReturns ==
    /\ vs_stack # <<>>
    /\ Top.pc = "in_receive"
    /\ vs_stack' = [vs_stack EXCEPT ![Len(vs_stack)].pc = "notify"]
    /\ UNCHANGED <<vs_value, vs_receivers, vs_all, vs_locks, vs_sets, vs_written,
                   vs_completed>>
    /\ vs_got' = NoGet
    /\ vs_last' = NoCall
    /\ UNCHANGED exceptStore

\* set_value returns
StoreSetValueReturns ==
    /\ vs_stack # <<>>
    /\ Top.pc = "notify"
    /\ Top.idx = Len(Notified(Top))
    /\ vs_stack' = SubSeq(vs_stack, 1, Len(vs_stack) - 1)
    /\ vs_completed' = [vs_completed EXCEPT ![Top.key] = Top.value]
    /\ vs_last' = [key |-> Top.key, value |-> Top.value, all_copy |-> Top.all_copy,
                   entry_copy |-> Top.entry_copy, calls |-> Top.calls]
    /\ UNCHANGED <<vs_value, vs_receivers, vs_all, vs_locks, vs_sets, vs_written>>
    /\ vs_got' = NoGet
    /\ UNCHANGED exceptStore

NextStore ==
    \/ StoreAddReceiver
    \/ StoreAddAllTopicReceiver
    \/ StoreGetValue
    \/ StoreSetValueEnter
    \/ StoreSetValueLeave
    \/ StoreNotify
    \/ StoreReceiveReturns
    \/ StoreSetValueReturns

SpecStore == Init /\ [][NextStore]_vars

\* how often a receiver was called by one set_value
Calls(call, receiver) ==
    Cardinality({i \in 1..Len(call.calls) : call.calls[i] = receiver})

\* the receivers of a list
Members(receivers) == {receivers[i] : i \in 1..Len(receivers)}

\* C12: a set_value that has returned called receive exactly once on every
\* receiver that was registered for its topic or for all topics, and on no
\* other, whatever the number of registrations of that receiver
C12_EachReceiverOnce ==
    vs_last # NoCall =>
        \A r \in VsReceivers :
            Calls(vs_last, r) =
                IF r \in Members(vs_last.all_copy) \cup Members(vs_last.entry_copy)
                THEN 1 ELSE 0


\* C13 as stated: a get_value made while no set_value is in progress returns
\* the value of the set_value on its topic that returned last, None if none did
C13_AsStated ==
    (vs_got # NoGet /\ vs_got.idle) => vs_got.result = vs_completed[vs_got.key]

\* C13: get_value(t) returns the value that was stored last for t, by the
\* set_value on t that was the last to write the entry, None if nothing was
\* stored for t; the value of t changes only in a set_value on t itself
C13_LastWriteWins ==
    [][/\ vs_got' # NoGet => vs_got'.result = vs_written'[vs_got'.key]
       /\ \A t \in VsTopics :
            vs_value'[t] # vs_value[t] =>
                /\ Len(vs_stack') = Len(vs_stack) + 1
                /\ vs_stack'[Len(vs_stack')].key = t
                /\ vs_value'[t] = vs_stack'[Len(vs_stack')].value]_vars

\* a get_value on t returns the first value although "u" was set after it
C13_Witness ==
    /\ vs_got # NoGet
    /\ vs_got.idle
    /\ vs_got.key = "t"
    /\ vs_got.result = 1
    /\ vs_written["u"] = 2


\* C14: while set_value is between or inside its calls of receive, neither the
\* store lock nor an entry lock is held, and inside receive the receiver can
\* call get_value, add_receiver, add_all_topic_receiver and set_value at once
C14_NotifiesWithoutLock ==
    (vs_stack # <<>> /\ Top.pc # "locked") =>
        /\ vs_locks = {}
        /\ Top.pc = "in_receive" =>
            /\ ENABLED StoreGetValue
            /\ ENABLED StoreAddReceiver
            /\ ENABLED StoreAddAllTopicReceiver
            /\ vs_sets < MaxSets => ENABLED StoreSetValueEnter

\* a receiver is inside receive, called by a set_value it made from inside receive
C14_Witness ==
    /\ Len(vs_stack) = 2
    /\ vs_stack[1].pc = "in_receive"
    /\ vs_stack[2].pc = "in_receive"
    /\ vs_locks = {}


(* ValueQueue on its own: one thread calls receive, another one pops and    *)
(* clears the Events                                                         *)

\* bounds: maxlen of the queue, and the receive calls of one run
QueueMaxLen == 2
MaxReceives == 4

\* the Events that are attached to the queue
QueueEvents == {"e1", "e2"}

\* ValueQueue.receive: the owner of the queue's lock while _notify_events runs
lock_released_for_notify_events(owner) == ""
lock_during_notify_events(owner) == owner

\* EventSource.add_event
QueueAddEvent ==
    /\ vq.lock = ""
    /\ \E e \in QueueEvents :
        /\ \A i \in 1..Len(vq.events) : vq.events[i] # e
        /\ vq' = [vq EXCEPT !.events = Append(@, e), !.popped = NoItem]
    /\ UNCHANGED exceptQueue

\* ValueQueue.receive up to the call of _notify_events
QueueReceiveEnter ==
    /\ vq.pc = "idle"
    /\ vq.lock = ""
    /\ Len(vq.received) < MaxReceives
    /\ \E topic \in VsTopics :
        LET item == [value |-> Len(vq.received) + 1, topic |-> topic] IN
        vq' = [vq EXCEPT !.queue = receive(@, QueueMaxLen, item),
                         !.received = Append(@, item),
                         !.lock = lock_during_notify_events("receive"),
                         !.pc = "notify_events",
                         !.idx = 0,
                         !.popped = NoItem]
    /\ UNCHANGED exceptQueue

\* EventSource._notify_events: e.trigger() for the next Event
QueueTrigger ==
    /\ vq.pc = "notify_events"
    /\ vq.idx < Len(vq.events)
    /\ vq' = [vq EXCEPT !.active = @ \cup {vq.events[vq.idx + 1]},
                        !.idx = @ + 1,
                        !.popped = NoItem]
    /\ UNCHANGED exceptQueue

\* ValueQueue.receive returns and leaves its with-block
QueueReceiveReturns ==
    /\ vq.pc = "notify_events"
    /\ vq.idx = Len(vq.events)
    /\ vq' = [vq EXCEPT !.lock = "", !.pc = "idle", !.popped = NoItem]
    /\ UNCHANGED exceptQueue

\* ValueQueue.pop_with_topic, by the other thread
QueuePop ==
    /\ vq.lock = ""
    /\ vq' = [vq EXCEPT !.queue = pop(@),
                        !.pops = IF Len(vq.queue) > 0 THEN 1 ELSE @,
                        !.popped = IF Len(vq.queue) > 0 THEN Head(vq.queue) ELSE NoItem]
    /\ UNCHANGED exceptQueue

\* Event.clear, by the other thread
QueueEventClear ==
    /\ \E e \in vq.active : vq' = [vq EXCEPT !.active = @ \ {e}, !.popped = NoItem]
    /\ UNCHANGED exceptQueue

NextQueue ==
    \/ QueueAddEvent
    \/ QueueReceiveEnter
    \/ QueueTrigger
    \/ QueueReceiveReturns
    \/ QueuePop
    \/ QueueEventClear

SpecQueue == Init /\ [][NextQueue]_vars

LastOf(seq, n) == SubSeq(seq, Len(seq) - n + 1, Len(seq))

\* C16: a queue with maxlen m > 0 never holds more than m items; what it holds
\* are the items received last, in arrival order; after more than m receives
\* and no pop these are exactly the last m received (value, topic) pairs; pop
\* returns and removes the oldest of them
C16_KeepsLastMaxlen ==
    [][/\ Len(vq'.queue) <= QueueMaxLen
       /\ vq'.queue = LastOf(vq'.received, Len(vq'.queue))
       /\ (vq'.pops = 0 /\ Len(vq'.received) > QueueMaxLen) =>
              vq'.queue = LastOf(vq'.received, QueueMaxLen)
       /\ vq'.popped # NoItem =>
              /\ vq'.popped = LastOf(vq.received, Len(vq.queue))[1]
              /\ vq'.queue = LastOf(vq.received, Len(vq.queue) - 1)]_vars

\* after more receives than maxlen and no pop before, pop has returned the
\* oldest of the last maxlen items
C16_Witness ==
    /\ Len(vq.received) > QueueMaxLen
    /\ vq.popped # NoItem
    /\ vq.popped.value = Len(vq.received) - QueueMaxLen + 1
    /\ Len(vq.queue) = QueueMaxLen - 1


(* Event on its own: threads in wait_and_clear, trigger, clear and expire    *)

\* bound: trigger calls of one run
MaxTriggers == 3

\* wait_and_clear up to the test of the flag: go on, or wait on the condition
EventWaitAndClear ==
    /\ \E w \in Waiters :
        /\ ev.pc[w] = "idle"
        /\ IF ev.flag
           THEN ev' = [ev EXCEPT !.flag = FALSE, !.pc[w] = "returned"]
           ELSE ev' = [ev EXCEPT !.pc[w] = "waiting"]
    /\ UNCHANGED exceptEvent

\* trigger: unless expired set the flag and notify all waiting threads
EventTrigger ==
    /\ ev.triggers < MaxTriggers
    /\ IF ev.expired
       THEN ev' = [ev EXCEPT !.triggers = @ + 1]
       ELSE ev' = [ev EXCEPT !.triggers = @ + 1,
                             !.flag = TRUE,
                             !.pc = [w \in Waiters |->
                                        IF ev.pc[w] = "waiting" THEN "notified"
                                        ELSE ev.pc[w]]]
    /\ UNCHANGED exceptEvent

\* wait_and_clear after the wait: the notified thread has the lock again,
\* clears the flag without looking at it and returns
EventWake ==
    /\ \E w \in Waiters :
        /\ ev.pc[w] = "notified"
        /\ ev' = [ev EXCEPT !.flag = FALSE, !.pc[w] = "returned"]
    /\ UNCHANGED exceptEvent

\* the caller of wait_and_clear goes on
EventCallerGoesOn ==
    /\ \E w \in Waiters :
        /\ ev.pc[w] = "returned"
        /\ ev' = [ev EXCEPT !.pc[w] = "idle"]
    /\ UNCHANGED exceptEvent

\* clear
EventClear ==
    /\ ev.flag
    /\ ev' = [ev EXCEPT !.flag = FALSE]
    /\ UNCHANGED exceptEvent

\* expire
EventExpire ==
    /\ ~ev.expired
    /\ ev' = [ev EXCEPT !.expired = TRUE]
    /\ UNCHANGED exceptEvent

NextEvent ==
    \/ EventWaitAndClear
    \/ EventTrigger
    \/ EventWake
    \/ EventCallerGoesOn
    \/ EventClear
    \/ EventExpire

SpecEvent == Init /\ [][NextEvent]_vars

\* C17: whenever a wait_and_clear returns, the flag was set at that moment
\* (a trigger has set it since it was cleared last), and it is cleared afterwards
C17_ReturnsOnlyOnSetFlag ==
    [][\A w \in Waiters :
          (ev.pc[w] # "returned" /\ ev'.pc[w] = "returned") =>
              (ev.flag /\ ~ev'.flag)]_vars


(* ComponentManager on its own, called by one thread, with the threads of    *)
(* its Components                                                            *)

\* register_component: the component object or the instance name is in the registry
is_registered_component_only(components, component, instance_name) ==
    \E i \in 1..Len(components) : components[i].component = component
is_registered(components, component, instance_name) ==
    \/ \E i \in 1..Len(components) : components[i].component = component
    \/ \E i \in 1..Len(components) : components[i].instance_name = instance_name

\* the ids of the registry, in the order of the dictionary
IdsInState(state) ==
    LET Ids[n \in 0..Len(mgr.components)] ==
            IF n = 0 THEN <<>>
            ELSE IF mgr.components[n].state = state THEN Append(Ids[n - 1], n)
            ELSE Ids[n - 1]
    IN Ids[Len(mgr.components)]

\* the entry the loop of the call in progress is at
Entry == mgr.components[mgr.touched[mgr.idx + 1]]

\* ctrl_configure: the configure hook is called unless the component is running
ctrl_configure_skips_hook(c) == c
ctrl_configure(c) ==
    IF c.thread # "none" THEN c ELSE [c EXCEPT !.configured = @ + 1]

\* ctrl_start: a new thread, both requests cleared
ctrl_start(c) ==
    IF c.thread # "none" THEN c
    ELSE [c EXCEPT !.thread = "startup", !.startup_request = FALSE,
                   !.shutdown_request = FALSE,
                   !.started = IF @ = "never" THEN "once" ELSE "again"]

\* ctrl_run
ctrl_run_fires_trigger(c) == [c EXCEPT !.trigger = TRUE]
ctrl_run(c) == [c EXCEPT !.startup_request = TRUE]

\* register_component
MgrRegister ==
    /\ mgr.pc = "idle"
    /\ \E component \in Components, instance_name \in InstanceNames :
        IF is_registered(mgr.components, component, instance_name)
        THEN mgr' = [mgr EXCEPT !.call = "register_component",
                                !.registration =
                                    [component |-> component,
                                     instance_name |-> instance_name,
                                     result |-> RegistrationFailed]]
        ELSE LET comp_id == mgr.last_comp_id + 1 IN
             mgr' = [mgr EXCEPT !.call = "register_component",
                                !.last_comp_id = comp_id,
                                !.components = Append(@,
                                    [id |-> comp_id, component |-> component,
                                     instance_name |-> instance_name,
                                     state |-> "REGISTERED"]),
                                !.registration =
                                    [component |-> component,
                                     instance_name |-> instance_name,
                                     result |-> comp_id]]
    /\ UNCHANGED comp
    /\ UNCHANGED exceptManager

\* configure
MgrConfigure ==
    /\ mgr.pc = "idle"
    /\ mgr' = [mgr EXCEPT !.call = "configure",
                          !.registration = NoRegistration,
                          !.components = [i \in 1..Len(mgr.components) |->
                              IF mgr.components[i].state = "REGISTERED"
                              THEN [mgr.components[i] EXCEPT !.state = "CONFIGURED"]
                              ELSE mgr.components[i]]]
    /\ comp' = [c \in Components |->
                   IF \E i \in 1..Len(mgr.components) :
                          /\ mgr.components[i].component = c
                          /\ mgr.components[i].state = "REGISTERED"
                   THEN ctrl_configure(comp[c])
                   ELSE comp[c]]
    /\ UNCHANGED exceptManager

\* startup, first loop: ctrl_start for every CONFIGURED entry
MgrStartup ==
    /\ mgr.pc = "idle"
    /\ mgr' = [mgr EXCEPT !.call = "startup",
                          !.registration = NoRegistration,
                          !.pc = "startup_wait",
                          !.idx = 0,
                          !.touched = IdsInState("CONFIGURED")]
    /\ comp' = [c \in Components |->
                   IF \E i \in 1..Len(mgr.components) :
                          /\ mgr.components[i].component = c
                          /\ mgr.components[i].state = "CONFIGURED"
                   THEN ctrl_start(comp[c])
                   ELSE comp[c]]
    /\ UNCHANGED exceptManager

\* startup, second loop: every started component is running
MgrStartupAllRunning ==
    /\ mgr.pc = "startup_wait"
    /\ \A i \in 1..Len(mgr.touched) :
           comp[mgr.components[mgr.touched[i]].component].thread # "none"
    /\ mgr' = [mgr EXCEPT !.pc = "startup_run"]
    /\ UNCHANGED comp
    /\ UNCHANGED exceptManager

\* startup, third loop: ctrl_run and RUNNING for the next started entry
MgrStartupRun ==
    /\ mgr.pc = "startup_run"
    /\ mgr.idx < Len(mgr.touched)
    /\ comp' = [comp EXCEPT ![Entry.component] = ctrl_run(@)]
    /\ mgr' = [mgr EXCEPT !.components[mgr.touched[mgr.idx + 1]].state = "RUNNING",
                          !.idx = @ + 1]
    /\ UNCHANGED exceptManager

\* startup returns
MgrStartupReturns ==
    /\ mgr.pc = "startup_run"
    /\ mgr.idx = Len(mgr.touched)
    /\ mgr' = [mgr EXCEPT !.pc = "idle", !.idx = 0, !.touched = <<>>]
    /\ UNCHANGED comp
    /\ UNCHANGED exceptManager

\* shutdown is called
MgrShutdown ==
    /\ mgr.pc = "idle"
    /\ mgr' = [mgr EXCEPT !.call = "shutdown",
                          !.registration = NoRegistration,
                          !.pc = "shutdown_stop",
                          !.idx = 0,
                          !.touched = IdsInState("RUNNING")]
    /\ UNCHANGED comp
    /\ UNCHANGED exceptManager

\* ctrl_stop: the shutdown request is set first
ctrl_stop_wakes_without_request(c) == [c EXCEPT !.trigger = TRUE]
ctrl_stop_request(c) == [c EXCEPT !.shutdown_request = TRUE]

\* ctrl_stop: then the trigger Event is fired
ctrl_stop_without_wake(c) == c
ctrl_stop_wake(c) == [c EXCEPT !.trigger = TRUE]

\* ctrl_stop: join returns when the thread has ended
join_returns_at_once(thread) == TRUE
join_returns(thread) == thread \in {"none", "ended"}

\* shutdown, first loop, ctrl_stop: the shutdown request of the next RUNNING entry
MgrShutdownStop ==
    /\ mgr.pc = "shutdown_stop"
    /\ mgr.idx < Len(mgr.touched)
    /\ comp' = [comp EXCEPT ![Entry.component] =
                   IF @.thread = "none" THEN @ ELSE ctrl_stop_request(@)]
    /\ mgr' = [mgr EXCEPT !.pc = "shutdown_wake"]
    /\ UNCHANGED exceptManager

\* shutdown, first loop, ctrl_stop: the trigger that wakes the thread
MgrShutdownWake ==
    /\ mgr.pc = "shutdown_wake"
    /\ comp' = [comp EXCEPT ![Entry.component] =
                   IF @.thread = "none" THEN @ ELSE ctrl_stop_wake(@)]
    /\ mgr' = [mgr EXCEPT !.pc = "shutdown_join"]
    /\ UNCHANGED exceptManager

\* shutdown, first loop, ctrl_stop: the thread is joined and forgotten; a thread
\* that has not ended by then would go on without the component knowing it
MgrShutdownJoin ==
    /\ mgr.pc = "shutdown_join"
    /\ join_returns(comp[Entry.component].thread)
    /\ comp' = [comp EXCEPT ![Entry.component] =
                   [@ EXCEPT !.thread = "none",
                             !.orphan = IF comp[Entry.component].thread \in {"none", "ended"}
                                        THEN @
                                        ELSE comp[Entry.component].thread]]
    /\ mgr' = [mgr EXCEPT !.pc = "shutdown_stop", !.idx = @ + 1]
    /\ UNCHANGED exceptManager

\* shutdown, second and third loop: no stopped component is running, all CONFIGURED
MgrShutdownReturns ==
    /\ mgr.pc = "shutdown_stop"
    /\ mgr.idx = Len(mgr.touched)
    /\ \A i \in 1..Len(mgr.touched) :
           comp[mgr.components[mgr.touched[i]].component].thread = "none"
    /\ mgr' = [mgr EXCEPT !.pc = "idle", !.idx = 0, !.touched = <<>>,
                          !.components = [i \in 1..Len(mgr.components) |->
                              IF \E j \in 1..Len(mgr.touched) : mgr.touched[j] = i
                              THEN [mgr.components[i] EXCEPT !.state = "CONFIGURED"]
                              ELSE mgr.components[i]]]
    /\ UNCHANGED comp
    /\ UNCHANGED exceptManager

\* the places of a component's thread: the one ctrl_start has stored in _thread,
\* and one that ctrl_stop has forgotten
ThreadSlots == {"thread", "orphan"}

\* the number of handlers of a component that are executing
Executing(c) ==
    Cardinality({slot \in ThreadSlots : comp[c][slot] \in {"in_handler", "in_value_handler"}})

\* _thread_main: the wait for the run request or the shutdown request is over
ThreadReleased ==
    /\ \E c \in Components, slot \in ThreadSlots :
        /\ comp[c][slot] = "startup"
        /\ comp[c].startup_request \/ comp[c].shutdown_request
        /\ comp' = [comp EXCEPT ![c][slot] = "loop"]
    /\ UNCHANGED mgr
    /\ UNCHANGED exceptManager

\* _thread_main: "while not self.shutdown_request", else the shutdown hook and the end
ThreadLoop ==
    /\ \E c \in Components, slot \in ThreadSlots :
        /\ comp[c][slot] = "loop"
        /\ comp' = [comp EXCEPT ![c][slot] =
                       IF comp[c].shutdown_request THEN "ended" ELSE "waiting"]
    /\ UNCHANGED mgr
    /\ UNCHANGED exceptManager

\* _thread_main: wait_and_clear returns
ThreadTriggered ==
    /\ \E c \in Components, slot \in ThreadSlots :
        /\ comp[c][slot] = "waiting"
        /\ comp[c].trigger
        /\ comp' = [comp EXCEPT ![c].trigger = FALSE,
                                ![c][slot] = "trigger_handlers"]
    /\ UNCHANGED mgr
    /\ UNCHANGED exceptManager

\* _thread_main: the trigger handler is called unless shutdown is requested
ThreadTriggerHandler ==
    /\ \E c \in Components, slot \in ThreadSlots :
        /\ comp[c][slot] = "trigger_handlers"
        /\ IF comp[c].shutdown_request
           THEN comp' = [comp EXCEPT ![c][slot] = "value_handlers"]
           ELSE comp' = [comp EXCEPT ![c][slot] = "in_handler"]
    /\ UNCHANGED mgr
    /\ UNCHANGED exceptManager

\* the trigger handler returns
ThreadHandlerReturns ==
    /\ \E c \in Components, slot \in ThreadSlots :
        /\ comp[c][slot] = "in_handler"
        /\ comp' = [comp EXCEPT ![c][slot] = "value_handlers"]
    /\ UNCHANGED mgr
    /\ UNCHANGED exceptManager

\* _thread_main: the value handler is cleared and called if it is active and
\* no shutdown is requested
ThreadValueHandler ==
    /\ \E c \in Components, slot \in ThreadSlots :
        /\ comp[c][slot] = "value_handlers"
        /\ IF ~comp[c].shutdown_request /\ comp[c].active
           THEN comp' = [comp EXCEPT ![c][slot] = "in_value_handler",
                                     ![c].active = FALSE]
           ELSE comp' = [comp EXCEPT ![c][slot] = "loop"]
    /\ UNCHANGED mgr
    /\ UNCHANGED exceptManager

\* the value handler returns
ThreadValueHandlerReturns ==
    /\ \E c \in Components, slot \in ThreadSlots :
        /\ comp[c][slot] = "in_value_handler"
        /\ comp' = [comp EXCEPT ![c][slot] = "loop"]
    /\ UNCHANGED mgr
    /\ UNCHANGED exceptManager

\* abort
abort_without_request(c) == [c EXCEPT !.trigger = TRUE]
abort(c) == [c EXCEPT !.shutdown_request = TRUE, !.trigger = TRUE]

\* a handler raises: the except clause calls abort, the finally clause the
\* shutdown hook, and the thread ends
ThreadHandlerRaises ==
    /\ \E c \in Components, slot \in ThreadSlots :
        /\ comp[c][slot] \in {"in_handler", "in_value_handler"}
        /\ comp' = [comp EXCEPT ![c] = [abort(@) EXCEPT ![slot] = "ended"]]
    /\ UNCHANGED mgr
    /\ UNCHANGED exceptManager

\* Component.trigger, called by an event source or another component while
\* the component has a thread
ComponentTrigger ==
    /\ \E c \in Components :
        /\ comp[c].thread # "none"
        /\ ~comp[c].trigger
        /\ comp' = [comp EXCEPT ![c].trigger = TRUE, ![c].stimulated = TRUE]
    /\ UNCHANGED mgr
    /\ UNCHANGED exceptManager

\* the value queue of the component receives a value while the component has
\* a thread: the queue triggers the Event of its handler and the trigger Event
\* of the component
ComponentValueReceived ==
    /\ \E c \in Components :
        /\ comp[c].thread # "none"
        /\ ~comp[c].active
        /\ comp' = [comp EXCEPT ![c].active = TRUE, ![c].trigger = TRUE,
                                ![c].stimulated = TRUE]
    /\ UNCHANGED mgr
    /\ UNCHANGED exceptManager

NextManager ==
    \/ MgrRegister
    \/ MgrConfigure
    \/ MgrStartup
    \/ MgrStartupAllRunning
    \/ MgrStartupRun
    \/ MgrStartupReturns
    \/ MgrShutdown
    \/ MgrShutdownStop
    \/ MgrShutdownWake
    \/ MgrShutdownJoin
    \/ MgrShutdownReturns
    \/ ThreadReleased
    \/ ThreadLoop
    \/ ThreadTriggered
    \/ ThreadTriggerHandler
    \/ ThreadHandlerReturns
    \/ ThreadValueHandler
    \/ ThreadValueHandlerReturns
    \/ ThreadHandlerRaises
    \/ ComponentTrigger
    \/ ComponentValueReceived

SpecManager == Init /\ [][NextManager]_vars


\* C18: a register_component call for a component object or an instance name
\* that is in the registry returns a negative id and leaves registry and id
\* counter as they are; every other call returns a positive id that no entry
\* has, and appends the entry with that id in state REGISTERED
C18_DuplicateRegistrationRejected ==
    [][(mgr'.registration # NoRegistration /\ mgr' # mgr) =>
          LET r == mgr'.registration IN
          IF \E i \in 1..Len(mgr.components) :
                 \/ mgr.components[i].component = r.component
                 \/ mgr.components[i].instance_name = r.instance_name
          THEN /\ r.result < 0
               /\ mgr'.components = mgr.components
               /\ mgr'.last_comp_id = mgr.last_comp_id
          ELSE /\ r.result > 0
               /\ \A i \in 1..Len(mgr.components) : mgr.components[i].id # r.result
               /\ mgr'.components = Append(mgr.components,
                      [id |-> r.result, component |-> r.component,
                       instance_name |-> r.instance_name, state |-> "REGISTERED"])]_vars

\* a second component was rejected because of its instance name, and a second
\* registration with a new name succeeded with a new id
C18_Witness ==
    /\ Len(mgr.components) = 2
    /\ mgr.registration.result = RegistrationFailed
    /\ mgr.components[1].id # mgr.components[2].id
    /\ \E i \in 1..2 :
          /\ mgr.components[i].instance_name = mgr.registration.instance_name
          /\ mgr.components[i].component # mgr.registration.component


StartedAllRunning ==
    \A j \in 1..Len(mgr.touched) :
        comp[mgr.components[mgr.touched[j]].component].thread # "none"

HandlerStarts(c) ==
    \E slot \in ThreadSlots :
        /\ comp'[c][slot] \in {"in_handler", "in_value_handler"}
        /\ comp'[c][slot] # comp[c][slot]

\* C21: a component whose trigger() was never called and whose queue never
\* received a value starts no handler from its configuration and start to the
\* end of its shutdown, the wake-up by shutdown included
C21_NoHandlerWithoutTrigger ==
    [][\A c \in Components :
          (HandlerStarts(c) /\ comp[c].started = "once") => comp[c].stimulated]_vars

\* the thread of a component that was never triggered was woken by shutdown
\* and has passed its trigger handler without calling it
C21_Witness ==
    \E c \in Components :
        /\ ~comp[c].stimulated
        /\ comp[c].started = "once"
        /\ comp[c].shutdown_request
        /\ comp[c].thread = "value_handlers"
        /\ mgr.call = "shutdown"


\* the thread of one component takes its next step, no handler raising
ThreadRuns(c) ==
    /\ \/ ThreadReleased
       \/ ThreadLoop
       \/ ThreadTriggered
       \/ ThreadTriggerHandler
       \/ ThreadHandlerReturns
       \/ ThreadValueHandler
       \/ ThreadValueHandlerReturns
    /\ comp'[c] # comp[c]

\* the manager goes on in shutdown
ShutdownRuns ==
    \/ MgrShutdownStop
    \/ MgrShutdownWake
    \/ MgrShutdownJoin
    \/ MgrShutdownReturns

\* every thread that can take a step takes it, every handler that does not
\* raise returns, and the thread in shutdown goes on
FairManager ==
    /\ SpecManager
    /\ \A c \in Components : WF_vars(ThreadRuns(c))
    /\ WF_vars(ShutdownRuns)

\* shutdown is between its call and its return
InShutdown == mgr.pc \in {"shutdown_stop", "shutdown_wake", "shutdown_join"}

\* C22: a shutdown call returns, whatever the threads are doing when their
\* stop is signalled, and when it returns every entry that was RUNNING is
\* CONFIGURED and its component has no thread left
C22_ShutdownReturns ==
    /\ InShutdown ~> mgr.pc = "idle"
    /\ [][(InShutdown /\ mgr'.pc = "idle") =>
             \A i \in 1..Len(mgr.components) :
                 mgr.components[i].state = "RUNNING" =>
                     /\ mgr'.components[i].state = "CONFIGURED"
                     /\ comp'[mgr.components[i].component].thread = "none"
                     /\ comp'[mgr.components[i].component].orphan = "none"]_vars

\* shutdown waits in join for a component whose thread is inside a handler
\* while the stop was signalled
C22_Witness ==
    /\ mgr.pc = "shutdown_join"
    /\ comp[Entry.component].thread = "in_handler"
    /\ comp[Entry.component].shutdown_request

\* C23: at most one trigger handler or value handler of a component is
\* executing in any state, over startup, trigger, value reception, shutdown
\* and restart
C23_HandlersNeverOverlap == \A c \in Components : Executing(c) <= 1

\* after a shutdown and a second startup the new thread of a component is
\* inside its value handler
C23_Witness ==
    \E c \in Components :
        /\ comp[c].started = "again"
        /\ comp[c].thread = "in_value_handler"
        /\ ~comp[c].shutdown_request


\* a handler of the component has raised in this step: its thread leaves the
\* handler for its end
Raises(c) ==
    \E slot \in ThreadSlots :
        /\ comp[c][slot] \in {"in_handler", "in_value_handler"}
        /\ comp'[c][slot] = "ended"

\* the thread of a component has ended although no shutdown call has stopped it
Aborted(c) == comp[c].thread = "ended"

\* C24: the step in which a handler of a component raises sets the shutdown
\* request and the trigger of that component and ends its thread, and leaves
\* the manager and every other component as they are, so that their threads
\* go on; a shutdown call that finds an ended thread returns
C24_AbortStopsOneComponent ==
    /\ [][\A c \in Components :
            Raises(c) =>
                /\ comp'[c].shutdown_request
                /\ comp'[c].trigger
                /\ Executing(c)' = 0
                /\ mgr' = mgr
                /\ \A d \in Components \ {c} : comp'[d] = comp[d]]_vars
    /\ (InShutdown /\ \E c \in Components : Aborted(c)) ~> mgr.pc = "idle"

\* no manager call is in progress, a handler of one component has raised and
\* its thread has ended, and the thread of the other component is inside a
\* handler
C24_Witness ==
    /\ mgr.pc = "idle"
    /\ \E c \in Components, d \in Components :
          /\ c # d
          /\ Aborted(c)
          /\ comp[c].shutdown_request
          /\ comp[d].thread = "in_handler"
          /\ ~comp[d].shutdown_request



\* ---------------------------------------------------------------------------
\* Two components that exchange values through the value store: each has a
\* value queue on its receiver topic with a handler that drains the queue and
\* answers every value below the limit with the next one on its sender topic

\* str and int of the one-digit values of the exchange
Digits == <<"0", "1", "2", "3", "4", "5", "6", "7", "8", "9">>
str(n) == Digits[n + 1]
int(s) == CHOOSE n \in 0..9 : Digits[n + 1] = s

\* _on_value: "if int_value < 5"
ReplyLimit == 5
answers_up_to_limit(int_value) == int_value <= ReplyLimit
answers(int_value) == int_value < ReplyLimit

receiver_topic == [c1 |-> "topic1", c2 |-> "topic2"]
sender_topic == [c1 |-> "topic2", c2 |-> "topic1"]

\* the component whose queue add_receiver has registered for the topic
Subscriber(topic) == CHOOSE c \in Components : receiver_topic[c] = topic

\* the values the test thread may set on topic1 to start the exchange
FirstValues == {"0", "4", "5"}

\* ValueHandler.__init__: the events of the queue in the order of add_event
handler_events_trigger_first == <<"comp_trigger", "received_value">>
handler_events == <<"received_value", "comp_trigger">>

\* the test thread calls value_store.set_value("topic1", v)
SysMainSets ==
    /\ sys.pc["main"] = "idle"
    /\ \E v \in FirstValues :
        sys' = [sys EXCEPT !.pc["main"] = "set",
                           !.out["main"] = [topic |-> "topic1", value |-> v]]
    /\ UNCHANGED exceptSystem

\* ValueStore.set_value: the value is written under the locks of the store and
\* the receivers of the topic are copied
SysSetValue ==
    /\ \E t \in Setters :
        /\ sys.pc[t] = "set"
        /\ sys' = [sys EXCEPT !.value[sys.out[t].topic] = sys.out[t].value,
                              !.sets[sys.out[t].topic] = Append(@, sys.out[t].value),
                              !.pc[t] = "receive"]
    /\ UNCHANGED exceptSystem

\* ValueQueue.receive: the lock of the queue is taken and the value appended
SysReceive ==
    /\ \E t \in Setters :
        LET q == Subscriber(sys.out[t].topic) IN
        /\ sys.pc[t] = "receive"
        /\ sys.lock[q] = ""
        /\ sys' = [sys EXCEPT !.lock[q] = t,
                              !.queue[q] = Append(@, sys.out[t].value),
                              !.pc[t] = "notify1"]
    /\ UNCHANGED exceptSystem

\* Event.trigger of the named event of the handler of component q
Fire(s, q, event) ==
    IF event = "received_value"
    THEN [s EXCEPT !.received_value[q] = TRUE]
    ELSE [s EXCEPT !.trigger[q] = TRUE]

\* _notify_events: the first event of the queue is triggered
SysNotifyFirst ==
    /\ \E t \in Setters :
        LET q == Subscriber(sys.out[t].topic) IN
        /\ sys.pc[t] = "notify1"
        /\ sys' = [Fire(sys, q, handler_events[1]) EXCEPT !.pc[t] = "notify2"]
    /\ UNCHANGED exceptSystem

\* _notify_events: the second event is triggered, receive releases the lock of
\* the queue, and set_value returns to the handler or to the test
SysNotifySecond ==
    /\ \E t \in Setters :
        LET q == Subscriber(sys.out[t].topic) IN
        /\ sys.pc[t] = "notify2"
        /\ sys' = [Fire(sys, q, handler_events[2]) EXCEPT
                       !.lock[q] = "",
                       !.out[t] = NoSet,
                       !.pc[t] = IF t = "main" THEN "done" ELSE "drain"]
    /\ UNCHANGED exceptSystem

\* _thread_main: "while not self.shutdown_request"
SysLoop ==
    /\ \E c \in Components :
        /\ sys.pc[c] = "loop"
        /\ sys' = [sys EXCEPT !.pc[c] = "waiting"]
    /\ UNCHANGED exceptSystem

\* _thread_main: wait_and_clear returns
SysTriggered ==
    /\ \E c \in Components :
        /\ sys.pc[c] = "waiting"
        /\ sys.trigger[c]
        /\ sys' = [sys EXCEPT !.trigger[c] = FALSE, !.pc[c] = "active"]
    /\ UNCHANGED exceptSystem

\* _thread_main: "if (not self.shutdown_request) and vhandler.active"
SysActive ==
    /\ \E c \in Components :
        /\ sys.pc[c] = "active"
        /\ sys' = [sys EXCEPT !.pc[c] = IF sys.received_value[c] THEN "clear" ELSE "loop"]
    /\ UNCHANGED exceptSystem

\* _thread_main: vhandler.clear(), then the handler is called
SysClear ==
    /\ \E c \in Components :
        /\ sys.pc[c] = "clear"
        /\ sys' = [sys EXCEPT !.received_value[c] = FALSE, !.pc[c] = "drain"]
    /\ UNCHANGED exceptSystem

\* _on_value: "while not self._value_queue.empty"; the handler returns when the
\* queue is empty
SysEmpty ==
    /\ \E c \in Components :
        /\ sys.pc[c] = "drain"
        /\ sys.lock[c] = ""
        /\ sys' = [sys EXCEPT !.pc[c] = IF sys.queue[c] = <<>> THEN "loop" ELSE "pop"]
    /\ UNCHANGED exceptSystem

\* _on_value: pop, int, and the answer if the value is below the limit
SysPop ==
    /\ \E c \in Components :
        LET str_value == Head(sys.queue[c])
            int_value == int(str_value)
        IN
        /\ sys.pc[c] = "pop"
        /\ sys.lock[c] = ""
        /\ sys' = [sys EXCEPT
                       !.queue[c] = Tail(@),
                       !.got[c] = Append(@, str_value),
                       !.out[c] = IF answers(int_value)
                                  THEN [topic |-> sender_topic[c],
                                        value |-> str(int_value + 1)]
                                  ELSE NoSet,
                       !.pc[c] = IF answers(int_value) THEN "set" ELSE "drain"]
    /\ UNCHANGED exceptSystem

NextSystem ==
    \/ SysMainSets
    \/ SysSetValue
    \/ SysReceive
    \/ SysNotifyFirst
    \/ SysNotifySecond
    \/ SysLoop
    \/ SysTriggered
    \/ SysActive
    \/ SysClear
    \/ SysEmpty
    \/ SysPop

SpecSystem == Init /\ [][NextSystem]_vars

\* a step of the thread: every step of a thread moves its position
SysRuns(t) == NextSystem /\ ~SysMainSets /\ sys'.pc[t] # sys.pc[t]

\* every thread that can take a step takes one: handlers terminate and the
\* threads are scheduled
FairSystem == SpecSystem /\ \A t \in Setters : WF_vars(SysRuns(t))


IsPrefix(s, t) == Len(s) <= Len(t) /\ s = SubSeq(t, 1, Len(s))

\* C25: what the handler of the subscriber of a topic has obtained from its
\* queue is at every moment the values set on the topic so far, in order and
\* each once, or a prefix of them; again and again it has obtained every value
\* set so far; and the store holds the last value set on the topic
C25_DeliveredExactlyOnce ==
    /\ [](\A c \in Components :
            /\ IsPrefix(sys.got[c], sys.sets[receiver_topic[c]])
            /\ sys.sets[receiver_topic[c]] # <<>> =>
                 sys.value[receiver_topic[c]] =
                     sys.sets[receiver_topic[c]][Len(sys.sets[receiver_topic[c]])])
    /\ \A c \in Components : []<>(sys.got[c] = sys.sets[receiver_topic[c]])

\* the one value set on topic2 was obtained by the handler of its subscriber,
\* which has returned, and the store holds it
C25_Witness ==
    /\ sys.sets["topic2"] = <<"5">>
    /\ sys.got["c2"] = <<"5">>
    /\ sys.value["topic2"] = "5"
    /\ sys.pc["c2"] = "waiting"
    /\ sys.pc["c1"] = "waiting"

\* the exchange has ended: the last values are in the store, the queues are
\* empty, no set_value is in progress and both threads wait for a trigger
Converged ==
    /\ sys.value = [topic1 |-> "4", topic2 |-> "5"]
    /\ sys.sets = [topic1 |-> <<"0", "2", "4">>, topic2 |-> <<"1", "3", "5">>]
    /\ \A c \in Components :
          /\ sys.queue[c] = <<>>
          /\ sys.pc[c] = "waiting"
          /\ ~sys.trigger[c]
    /\ sys.pc["main"] = "done"

\* C26: once "0" is set on topic1 the exchange reaches the state with "4" on
\* topic1 and "5" on topic2, empty queues and no further set_value, and stays
\* in it; as long as the test has set nothing both topics have no value
C26_PingPongConverges ==
    /\ (sys.sets["topic1"] # <<>> /\ sys.sets["topic1"][1] = "0") ~> [](Converged)
    /\ [](sys.pc["main"] = "idle" =>
            /\ sys.value = [t \in SysTopics |-> None]
            /\ sys.sets = [t \in SysTopics |-> <<>>])

\* the exchange started with "0" has ended
C26_Witness == Converged

\* ---------------------------------------------------------------------------
\* The ValueRecorder: set_value callers append to its queue, the write thread
\* pops and writes or drops

RECORDER_STATUS_TOPIC == "/mcf/recorder/status"
RecTopics == {RECORDER_STATUS_TOPIC, "TOPIC_1"}

\* write_thread: "if queue_size < self._queue_size_limit or qe.topic == RECORDER_STATUS_TOPIC"
keeps_at_limit(queue_size, limit, topic) ==
    queue_size <= limit \/ topic = RECORDER_STATUS_TOPIC
keeps(queue_size, limit, topic) ==
    queue_size < limit \/ topic = RECORDER_STATUS_TOPIC

\* _serialize: returns without writing if the topic is disabled or the value
\* is not a Value
serializes(qe, disabled_topics) == qe.topic \notin disabled_topics /\ qe.is_value

\* a set_value call on the store reaches Queue.receive of the recorder
RecSetValue ==
    /\ rec.sets < MaxRecorded
    /\ \E topic \in RecTopics, is_value \in BOOLEAN :
        rec' = [rec EXCEPT !.sets = @ + 1,
                           !.queue = Append(@, [topic |-> topic, is_value |-> is_value])]
    /\ UNCHANGED exceptRecorder

\* set_write_queue_size_limit
RecSetLimit ==
    /\ \E limit \in 0..MaxLimit :
        /\ limit # rec.queue_size_limit
        /\ rec' = [rec EXCEPT !.queue_size_limit = limit]
    /\ UNCHANGED exceptRecorder

\* disable_serialization
RecDisable ==
    /\ \E topic \in RecTopics \ rec.disabled_topics :
        rec' = [rec EXCEPT !.disabled_topics = @ \cup {topic}]
    /\ UNCHANGED exceptRecorder

\* write_thread: Queue.pop returns the oldest entry and the size that is left
RecPop ==
    /\ rec.pc = "pop"
    /\ rec.queue # <<>>
    /\ rec' = [rec EXCEPT !.qe = Head(rec.queue),
                          !.queue = Tail(@),
                          !.queue_size = Len(rec.queue) - 1,
                          !.pc = "decide"]
    /\ UNCHANGED exceptRecorder

\* write_thread: the entry is passed to _serialize or reported as dropped;
\* _serialize writes it, and serialize_end may output the status, which is set
\* on the store, reaches the queue of the recorder and resets the drop flag
RecDecide ==
    /\ rec.pc = "decide"
    /\ IF keeps(rec.queue_size, rec.queue_size_limit, rec.qe.topic)
       THEN IF serializes(rec.qe, rec.disabled_topics)
            THEN \/ rec' = [rec EXCEPT !.file = Append(@, rec.qe),
                                       !.qe = NoEntry, !.pc = "pop"]
                 \/ /\ rec.statuses < MaxStatus
                    /\ rec' = [rec EXCEPT
                                   !.file = Append(@, rec.qe),
                                   !.queue = Append(@, [topic |-> RECORDER_STATUS_TOPIC,
                                                        is_value |-> TRUE]),
                                   !.statuses = @ + 1,
                                   !.drop_flag = FALSE,
                                   !.qe = NoEntry, !.pc = "pop"]
            ELSE rec' = [rec EXCEPT !.qe = NoEntry, !.pc = "pop"]
       ELSE rec' = [rec EXCEPT !.drop_flag = TRUE, !.qe = NoEntry, !.pc = "pop"]
    /\ UNCHANGED exceptRecorder

NextRecorder ==
    \/ RecSetValue
    \/ RecSetLimit
    \/ RecDisable
    \/ RecPop
    \/ RecDecide

SpecRecorder == Init /\ [][NextRecorder]_vars

\* the write thread has decided about the entry it had popped
Decided == rec.pc = "decide" /\ rec'.pc = "pop"
Written == rec'.file = Append(rec.file, rec.qe)
BelowLimitOrStatus ==
    rec.queue_size < rec.queue_size_limit \/ rec.qe.topic = RECORDER_STATUS_TOPIC

\* C27 as stated: the write thread writes the entry it has popped if and only
\* if the size left in the queue is below the limit or the topic is the status
\* topic, and otherwise sets the drop flag
C27_AsStated ==
    [][Decided =>
          /\ Written <=> BelowLimitOrStatus
          /\ ~BelowLimitOrStatus => rec'.drop_flag]_vars

\* C27: the write thread writes the entry it has popped if and only if the
\* size left in the queue is below the limit or the topic is the status topic,
\* provided the topic is not disabled and the value is a Value; an entry of a
\* disabled topic or with another value is not written and, unless it is over
\* the limit, not reported as dropped; an entry over the limit that is not a
\* status entry is not written and sets the drop flag; and a set_value call
\* can append to the queue in every state of the write thread
C27_DropPolicy ==
    /\ [][Decided =>
             /\ serializes(rec.qe, rec.disabled_topics) => (Written <=> BelowLimitOrStatus)
             /\ ~serializes(rec.qe, rec.disabled_topics) => rec'.file = rec.file
             /\ ~BelowLimitOrStatus => (rec'.file = rec.file /\ rec'.drop_flag)
             /\ BelowLimitOrStatus => rec'.drop_flag \in {rec.drop_flag, FALSE}]_vars
    /\ [](rec.sets < MaxRecorded => ENABLED RecSetValue)

\* with limit 0 an entry was dropped and a status entry behind it was written
C27_Witness ==
    /\ rec.queue_size_limit = 0
    /\ rec.drop_flag
    /\ rec.file # <<>>
    /\ rec.file[Len(rec.file)].topic = RECORDER_STATUS_TOPIC
    /\ rec.pc = "pop"


\* ---------------------------------------------------------------------------
\* The record file: ValueRecorder._serialize writes it, RecordReader reads it

\* the file is a sequence of places: a msgpack object takes one place (the
\* unpacker finds its end by itself), a byte of ExtMem data takes one place
PHeader(topic, tid, vid) ==
    [kind |-> "pheader", topic |-> topic, tid |-> tid, vid |-> vid, value |-> 0,
     extmem_size |-> 0, extmem_present |-> FALSE, extmem_size_compressed |-> 0, byte |-> 0]
PValue(payload) ==
    [kind |-> "value", topic |-> "", tid |-> "", vid |-> 0, value |-> payload,
     extmem_size |-> 0, extmem_present |-> FALSE, extmem_size_compressed |-> 0, byte |-> 0]
MHeader(extmem_size, extmem_present, extmem_size_compressed) ==
    [kind |-> "mheader", topic |-> "", tid |-> "", vid |-> 0, value |-> 0,
     extmem_size |-> extmem_size, extmem_present |-> extmem_present,
     extmem_size_compressed |-> extmem_size_compressed, byte |-> 0]
Raw(byte) ==
    [kind |-> "raw", topic |-> "", tid |-> "", vid |-> 0, value |-> 0,
     extmem_size |-> 0, extmem_present |-> FALSE, extmem_size_compressed |-> 0, byte |-> byte]

\* serialize() of a value without ExtMem has two elements
NoExtMem == <<-1>>

RECURSIVE Sum(_)
Sum(bytes) == IF bytes = <<>> THEN 0 ELSE Head(bytes) + Sum(Tail(bytes))

\* zlib: a header, the data (as stored blocks keep it), a checksum of the data
ZlibHeader == 120
checksum(data) == (1 + Sum(data) + Len(data)) % 251
compress(data) == <<ZlibHeader>> \o data \o <<checksum(data)>>
decompress(data) ==
    IF /\ Len(data) >= 2
       /\ data[1] = ZlibHeader
       /\ data[Len(data)] = checksum(SubSeq(data, 2, Len(data) - 1))
    THEN SubSeq(data, 2, Len(data) - 1)
    ELSE NoExtMem

\* _serialize: packet header, value, ExtMem header, and the ExtMem data if the
\* value has some and the topic is enabled, compressed if the topic is set so
_serialize(qe, enabled_ext_mem_topics, compressed_ext_mem_topics) ==
    LET pack_extmem == qe.extmem # NoExtMem /\ qe.topic \in enabled_ext_mem_topics
        compress_extmem == qe.topic \in compressed_ext_mem_topics
        uncompressed_len == IF pack_extmem THEN Len(qe.extmem) ELSE 0
        extmem_data == IF ~pack_extmem THEN <<>>
                       ELSE IF compress_extmem THEN compress(qe.extmem)
                       ELSE qe.extmem
        extmem_size_compressed ==
            IF pack_extmem /\ compress_extmem THEN Len(extmem_data) ELSE 0
    IN <<PHeader(qe.topic, qe.tid, qe.vid),
         PValue(qe.value),
         MHeader(uncompressed_len, pack_extmem, extmem_size_compressed)>>
       \o [i \in 1..Len(extmem_data) |-> Raw(extmem_data[i])]

\* RecordReader: the number of bytes of ExtMem data behind the ExtMem header
stored_size_uncompressed(extmem_size, extmem_size_compressed) == extmem_size
stored_size(extmem_size, extmem_size_compressed) ==
    IF extmem_size_compressed = 0 THEN extmem_size ELSE extmem_size_compressed

\* RecordReader.index: the offsets at which a record starts; the unpacker
\* raises OutOfData when no complete object is left
RECURSIVE index(_, _)
index(file, offset) ==
    IF offset + 3 > Len(file) THEN <<>>
    ELSE LET m_header == file[offset + 3]
             next == IF m_header.extmem_present
                     THEN offset + 3 + stored_size(m_header.extmem_size,
                                                   m_header.extmem_size_compressed)
                     ELSE offset + 3
         IN <<offset>> \o index(file, next)

\* file.read(size) at the offset
read(file, offset, size) ==
    [i \in 1..(IF offset + size <= Len(file) THEN size
               ELSE IF offset < Len(file) THEN Len(file) - offset ELSE 0) |->
        file[offset + i].byte]

\* RecordReader.get_extmem
get_extmem(file, record) ==
    IF record.extmem_present
    THEN IF record.extmem_size_compressed # 0
         THEN decompress(read(file, record.extmem_index, record.extmem_size_compressed))
         ELSE read(file, record.extmem_index, record.extmem_size)
    ELSE NoExtMem

\* RecordReader.records(0, index_size) with get_extmem of every record: the
\* fields the unpacker finds at the offsets of the index
records(file) ==
    LET idx == index(file, 0) IN
    [i \in 1..Len(idx) |->
        LET p_header == file[idx[i] + 1]
            packed == file[idx[i] + 2]
            m_header == file[idx[i] + 3]
            record == [extmem_present |-> m_header.extmem_present,
                       extmem_size |-> m_header.extmem_size,
                       extmem_size_compressed |-> m_header.extmem_size_compressed,
                       extmem_index |-> idx[i] + 3]
        IN [topic |-> p_header.topic, typeid |-> p_header.tid, valueid |-> p_header.vid,
            value |-> packed.value, extmem |-> get_extmem(file, record)]]

\* the values that are recorded: topics, types with and without ExtMem
RrTopics == {"TOPIC_1", "TOPIC_2"}
RrTypes == {[tid |-> "PointXYZ", value |-> 1, extmem |-> NoExtMem],
            [tid |-> "ImageUint8", value |-> 2, extmem |-> <<>>],
            [tid |-> "ImageUint8", value |-> 3, extmem |-> <<7>>],
            [tid |-> "ImageUint8", value |-> 4, extmem |-> <<7, 120>>]}
MaxRecords == 2

\* _next_value_id of the test
FirstValueId == 41

\* enable_ext_mem_serialization, before the first value
RrEnableExtMem ==
    /\ rr.values = <<>>
    /\ \E topic \in RrTopics \ rr.enabled_ext_mem_topics :
        rr' = [rr EXCEPT !.enabled_ext_mem_topics = @ \cup {topic}]
    /\ UNCHANGED exceptRecord

\* enable_ext_mem_compression, before the first value
RrEnableCompression ==
    /\ rr.values = <<>>
    /\ \E topic \in RrTopics \ rr.compressed_ext_mem_topics :
        rr' = [rr EXCEPT !.compressed_ext_mem_topics = @ \cup {topic}]
    /\ UNCHANGED exceptRecord

\* a value is set on the store and the write thread serializes it to the file
RrRecord ==
    /\ ~rr.closed
    /\ Len(rr.values) < MaxRecords
    /\ \E topic \in RrTopics, type \in RrTypes :
        LET qe == [topic |-> topic, tid |-> type.tid, value |-> type.value,
                   vid |-> FirstValueId + Len(rr.values), extmem |-> type.extmem]
        IN rr' = [rr EXCEPT
                      !.values = Append(@, qe),
                      !.file = @ \o _serialize(qe, rr.enabled_ext_mem_topics,
                                               rr.compressed_ext_mem_topics)]
    /\ UNCHANGED exceptRecord

\* stop(), then RecordReader: open, index, records, get_extmem
RrRead ==
    /\ ~rr.closed
    /\ rr' = [rr EXCEPT !.closed = TRUE, !.records = records(rr.file)]
    /\ UNCHANGED exceptRecord

NextRecord ==
    \/ RrEnableExtMem
    \/ RrEnableCompression
    \/ RrRecord
    \/ RrRead

SpecRecord == Init /\ [][NextRecord]_vars

\* C28: the records read from the file of a recording are as many as the
\* values that were written, in their order, each with the topic, type name,
\* value id and payload of its value, and with the ExtMem bytes of the value if
\* it has ExtMem and ExtMem recording is enabled for the topic, compressed or
\* not, and without ExtMem otherwise
C28_RecordRoundTrip ==
    rr.closed =>
        /\ Len(rr.records) = Len(rr.values)
        /\ \A i \in 1..Len(rr.values) :
              /\ i <= Len(rr.records)
              /\ rr.records[i].topic = rr.values[i].topic
              /\ rr.records[i].typeid = rr.values[i].tid
              /\ rr.records[i].valueid = rr.values[i].vid
              /\ rr.records[i].value = rr.values[i].value
              /\ rr.records[i].extmem =
                     IF rr.values[i].topic \in rr.enabled_ext_mem_topics
                     THEN rr.values[i].extmem
                     ELSE NoExtMem

\* two values were read back, the first with compressed ExtMem data in front
\* of the second record
C28_Witness ==
    /\ rr.closed
    /\ Len(rr.values) = 2
    /\ rr.values[1].extmem = <<7, 120>>
    /\ rr.values[1].topic \in rr.enabled_ext_mem_topics \cap rr.compressed_ext_mem_topics
    /\ rr.values[2].topic \notin rr.enabled_ext_mem_topics

------------------------------------------------------------------------------
(* RemoteService: the send rules and receive rules, one handler per step *)

\* _handle_send_single: "topic = send_rule.topic", the name given to
\* RemotePair.send_value; add_send_rule keeps SendRule(topic=topic_local) under
\* the key topic_remote
send_value_topic(k) == SendTopic[k]

\* value_received: "self.set_value(topic, value)", topic being the name the value
\* came with; add_receive_rule keeps ReceiveRule(topic=topic_local) under the key
\* topic_remote
set_value_topic(topic) == topic

\* a value message sent for rule k under a topic name, and the peer's reply
Out(k, topic, result) == [dir |-> "out", rule |-> k, topic |-> topic, reply |-> result]

\* a value message read under a topic name, and the reply given to the peer
In(topic, result) ==
    [dir |-> "in", rule |-> IF topic \in ReceiveKeys THEN topic ELSE "",
     topic |-> topic, reply |-> result]

\* Component._thread_main: wait_and_clear returns and clears the trigger, the
\* handlers run
RulesTriggered ==
    /\ pc = "wait"
    /\ trigger_flag
    /\ trigger_flag' = FALSE
    /\ pc' = "init"
    /\ wire' = NoWire
    /\ UNCHANGED <<initialized, ruleVars, storeVars, exceptRules>>

\* _handle_triggers, with the link up or not: "self._initialized = True" on the
\* first connection; and the first line of _handle_send,
\* "if not self._initialized: return"
RulesFirstConnection ==
    /\ pc = "init"
    /\ \E conn \in BOOLEAN :
        initialized' = (initialized \/ first_connection(initialized, conn))
    /\ pc' = IF initialized' THEN "send_single" ELSE "wait"
    /\ wire' = NoWire
    /\ UNCHANGED <<ruleVars, storeVars, trigger_flag, exceptRules>>

\* set_value of a Value on the local topic of a send rule, by some component;
\* ValueQueue.receive triggers the component's Event
RulesSetValue ==
    /\ \E k \in Keys :
        /\ store' = [store EXCEPT ![SendTopic[k]] = V]
        /\ queue' = [j \in Keys |->
                        IF SendTopic[j] = SendTopic[k]
                        THEN receive(queue[j], QueueLength[j], V)
                        ELSE queue[j]]
    /\ trigger_flag' = TRUE
    /\ wire' = NoWire
    /\ UNCHANGED <<initialized, forced_send, send_pending, pc, exceptRules>>

\* RemoteService.send_all
RulesSendAll ==
    /\ forced_send' = [k \in Keys |-> TRUE]
    /\ trigger_flag' = TRUE
    /\ wire' = NoWire
    /\ UNCHANGED <<initialized, send_pending, queue, storeVars, pc, exceptRules>>

\* RemoteService.reset_pending_values, called when the link leaves UP
RulesResetPendingValues ==
    /\ send_pending' = reset_pending_values(send_pending)
    /\ wire' = NoWire
    /\ UNCHANGED <<initialized, forced_send, queue, storeVars, trigger_flag, pc,
                   exceptRules>>

\* _handle_send: the link is found down, "break", and the pass ends
RulesNotConnected ==
    /\ pc = "send_single"
    /\ pc' = "wait"
    /\ wire' = NoWire
    /\ UNCHANGED <<initialized, ruleVars, storeVars, trigger_flag, exceptRules>>

\* _handle_send with the link up: _handle_send_single(snd_rule), then
\* "if snd_rule.state.forced_send or not snd_rule.queue.empty:
\* more_values_to_send = True"
RulesSendSingle ==
    /\ pc = "send_single"
    /\ \E k \in Keys :
        /\ IF ~may_send(send_pending[k])
           THEN /\ wire' = NoWire
                /\ UNCHANGED ruleVars
           ELSE IF queue[k] # <<>>
           THEN \E result \in ValueReplies :
                   LET done == result \in {"INJECTED", "RECEIVED", "REJECTED"} IN
                   /\ wire' = Out(k, send_value_topic(k), result)
                   /\ queue' = IF done THEN [queue EXCEPT ![k] = pop(@)] ELSE queue
                   /\ forced_send' = IF done THEN [forced_send EXCEPT ![k] = FALSE]
                                     ELSE forced_send
                   /\ send_pending' =
                        IF done THEN [send_pending EXCEPT ![k] = pending_after(@, result)]
                        ELSE send_pending
           ELSE IF forced_send[k]
           THEN IF store[send_value_topic(k)] = None
                THEN /\ forced_send' = [forced_send EXCEPT ![k] = FALSE]
                     /\ wire' = NoWire
                     /\ UNCHANGED <<send_pending, queue>>
                ELSE \E result \in ValueReplies :
                       /\ wire' = Out(k, send_value_topic(k), result)
                       /\ forced_send' =
                            IF result \in {"INJECTED", "RECEIVED", "REJECTED"}
                            THEN [forced_send EXCEPT ![k] = FALSE]
                            ELSE forced_send
                       /\ send_pending' =
                            [send_pending EXCEPT ![k] = pending_after(@, result)]
                       /\ UNCHANGED queue
           ELSE /\ wire' = NoWire
                /\ UNCHANGED ruleVars
        /\ pc' = IF forced_send'[k] \/ queue'[k] # <<>> THEN "send_single" ELSE "wait"
    /\ UNCHANGED <<initialized, storeVars, trigger_flag, exceptRules>>

\* RemoteService.value_received(topic, value), called by the receive thread
RulesValueReceived ==
    /\ \E topic \in InTopics :
        LET result == value_received(topic) IN
        /\ store' = IF result = "INJECTED"
                    THEN [store EXCEPT ![set_value_topic(topic)] = V]
                    ELSE store
        /\ wire' = In(topic, result)
    /\ UNCHANGED <<initialized, ruleVars, trigger_flag, pc, exceptRules>>

NextRules ==
    \/ RulesTriggered
    \/ RulesFirstConnection
    \/ RulesSetValue
    \/ RulesSendAll
    \/ RulesResetPendingValues
    \/ RulesNotConnected
    \/ RulesSendSingle
    \/ RulesValueReceived

SpecRules == Init /\ [][NextRules]_vars

\* C29: once the service is initialized, a value received under remote topic R
\* that has a receive rule (L, R) is written to the store under L and answered
\* INJECTED; a value under a remote topic without a receive rule is answered
\* REJECTED and the store stays as it was
C29_ReceivedUnderLocalTopic ==
    [][\A R \in InTopics :
          (initialized /\ wire'.dir = "in" /\ wire'.topic = R) =>
              IF R \in ReceiveKeys
              THEN /\ wire'.reply = "INJECTED"
                   /\ store' = [store EXCEPT ![ReceiveTopic[R]] = V]
              ELSE /\ wire'.reply = "REJECTED"
                   /\ store' = store]_vars

\* what value_received keeps of it: the replies, and the store untouched by a
\* value without a receive rule
ValueReceivedReplies ==
    [][\A R \in InTopics :
          (initialized /\ wire'.dir = "in" /\ wire'.topic = R) =>
              IF R \in ReceiveKeys
              THEN wire'.reply = "INJECTED"
              ELSE wire'.reply = "REJECTED" /\ store' = store]_vars

\* C30: every value sent for the send rule (L, R) crosses the link under the
\* topic name R
C30_SentUnderRemoteTopic ==
    \A k \in Keys : (wire.dir = "out" /\ wire.rule = k) => wire.topic = k

------------------------------------------------------------------------------
(* RemoteService._handle_send_single against a concurrent ValueStore.set_value *)

\* the rule's queue is created with maxlen=snd_rule.queue_length
SndMaxLen == QueueLength[SendKeys[1]]

\* a value message handed to the sender, and the branch that sent it
Sent(v, via) == [value |-> v, via |-> via]

\* ValueStore.set_value up to the end of "with self._lock": entry.value = value
SndSetValueStore ==
    /\ snd.setter = "idle"
    /\ snd.writes < MaxWrites
    /\ snd' = [snd EXCEPT !.writes = @ + 1, !.store = snd.writes + 1,
                          !.setter = "notify"]
    /\ UNCHANGED exceptSend

\* ValueStore.set_value after the lock: _notify_receivers_and_cleanup, which calls
\* ValueQueue.receive of the rule's queue
SndSetValueNotify ==
    /\ snd.setter = "notify"
    /\ snd' = [snd EXCEPT !.queue = receive(@, SndMaxLen, snd.store),
                          !.setter = "idle"]
    /\ UNCHANGED exceptSend

\* RemoteService.send_all, under _lock_send
SndSendAll ==
    /\ snd.pc = "idle"
    /\ ~snd.forced_send
    /\ snd' = [snd EXCEPT !.forced_send = TRUE]
    /\ UNCHANGED exceptSend

\* RemoteService.reset_pending_values, under _lock_send
SndResetPendingValues ==
    /\ snd.pc = "idle"
    /\ snd.send_pending
    /\ snd' = [snd EXCEPT !.send_pending = FALSE]
    /\ UNCHANGED exceptSend

\* _handle_send_single: the guard; queue.peek and send_value of a queued value; or
\* get_value of a forced send
SndSendSingle ==
    /\ snd.pc = "idle"
    /\ may_send(snd.send_pending)
    /\ IF snd.queue # <<>>
       THEN /\ Len(snd.sent) < MaxSent
            /\ snd' = [snd EXCEPT !.value = Head(snd.queue), !.pc = "queue_reply",
                                  !.sent = Append(@, Sent(Head(snd.queue), "queue"))]
       ELSE /\ snd.forced_send
            /\ snd' = [snd EXCEPT !.value = snd.store, !.pc = "forced_check"]
    /\ UNCHANGED exceptSend

\* _handle_send_single, queue branch: the reply, queue.pop
SndQueueReply ==
    /\ snd.pc = "queue_reply"
    /\ \E result \in ValueReplies :
        snd' = IF result \in {"INJECTED", "RECEIVED", "REJECTED"}
               THEN [snd EXCEPT !.queue = pop(@), !.forced_send = FALSE,
                                !.send_pending = pending_after(@, result),
                                !.pc = "idle", !.value = NoValue]
               ELSE [snd EXCEPT !.pc = "idle", !.value = NoValue]
    /\ UNCHANGED exceptSend

\* _handle_send_single, forced branch: "if not queue.empty", "if value is None",
\* send_value of the value read from the store
SndForcedCheck ==
    /\ snd.pc = "forced_check"
    /\ IF snd.queue # <<>> \/ snd.value = NoValue
       THEN snd' = [snd EXCEPT !.forced_send = FALSE, !.pc = "idle", !.value = NoValue]
       ELSE /\ Len(snd.sent) < MaxSent
            /\ snd' = [snd EXCEPT !.pc = "forced_reply",
                                  !.sent = Append(@, Sent(snd.value, "forced"))]
    /\ UNCHANGED exceptSend

\* _handle_send_single, forced branch: the reply
SndForcedReply ==
    /\ snd.pc = "forced_reply"
    /\ \E result \in ValueReplies :
        snd' = [snd EXCEPT !.forced_send =
                                IF result \in {"INJECTED", "RECEIVED", "REJECTED"}
                                THEN FALSE ELSE @,
                           !.send_pending = pending_after(@, result),
                           !.pc = "idle", !.value = NoValue]
    /\ UNCHANGED exceptSend

NextSend ==
    \/ SndSetValueStore
    \/ SndSetValueNotify
    \/ SndSendAll
    \/ SndResetPendingValues
    \/ SndSendSingle
    \/ SndQueueReply
    \/ SndForcedCheck
    \/ SndForcedReply

SpecSend == Init /\ [][NextSend]_vars

\* C31: no value is sent by the forced send and, later, again from the queue
C31_ForcedNotSentAgain ==
    \A i, j \in 1..Len(snd.sent) :
        (i < j /\ snd.sent[i].via = "forced" /\ snd.sent[j].via = "queue")
            => snd.sent[i].value # snd.sent[j].value

\* C32: the entry that pop removes after a reply is the entry that was peeked and
\* sent
C32_PopRemovesSentEntry ==
    [][(snd.pc = "queue_reply" /\ snd'.queue # snd.queue /\ snd'.pc = "idle")
          => Head(snd.queue) = snd.value]_vars

------------------------------------------------------------------------------
(* The service: the send loop of Spec *)

\* a step of the component thread
CompRuns ==
    \/ CompWait \/ CompExit \/ CompObserve \/ CompInit \/ CompSendLoop
    \/ CompSendCheck \/ CompSendSingle \/ CompQueueReply \/ CompForcedCheck
    \/ CompForcedReply \/ CompCycle \/ CompPongs

\* the component thread runs whenever it can, every send returns, and the cyclic
\* trigger thread keeps triggering
FairSpec == Spec /\ WF_vars(CompRuns) /\ WF_vars(TriggerCyclic)

\* the positions inside _handle_send
HandleSendPcs == {"send_loop", "send_check", "send_single", "queue_reply",
                  "forced_check", "forced_reply"}

\* C33: every invocation of _handle_send returns, and the trigger cycle goes on to
\* RemotePair.cycle
C33_HandleSendReturns == (pc \in HandleSendPcs) ~> (pc = "cycle")

\* C34: a value is handed to the sender only while the tracker is UP and after
\* the service has seen its first connection, whatever the receive thread did to
\* the tracker in between; and the tracker is still UP while the reply is awaited
C34_SentOnlyWhenUp ==
    /\ [][ValueSent => tracker.remote_state = STATE_UP /\ initialized]_vars
    /\ [](pc \in SendingPcs => tracker.remote_state = STATE_UP /\ initialized)

\* C34 happens: a forced send is on the wire while a ping the receive thread read
\* waits for its pong
C34_Witness ==
    /\ pc = "forced_reply"
    /\ tracker.remote_state = STATE_UP
    /\ pong_queue # <<>>

\* send_all has set forced_send of the rule and its local topic holds a value
Requested(k) == forced_send[k] /\ store[SendTopic[k]] # None

\* a value of the rule is on the wire
OnWire(k) == pc \in SendingPcs /\ SendKeys[rule_idx] = k

\* C35: after request_all, the value of every send rule whose topic holds one is
\* eventually transmitted, if the link stays UP from some time on and the
\* component thread keeps running its send loop
C35_RequestedValueSent ==
    (<>[]connected /\ []<>(pc \in HandleSendPcs))
        => \A k \in Keys : Requested(k) ~> OnWire(k)

------------------------------------------------------------------------------
(* Two components: the wake of the component thread *)

\* the thread of c, woken, decides in this step whether to call the value handler
Decides(c) == sys.pc[c] = "active" /\ sys'.pc[c] # "active"

\* C36: on every wake the value handler is called if and only if its queue is not
\* empty at that moment
C36_CalledIffQueueNotEmpty ==
    [][\A c \in Components :
          Decides(c) => (sys'.pc[c] = "clear" <=> sys.queue[c] # <<>>)]_vars

\* the handler is called with an empty queue
CalledWithEmptyQueue ==
    \E c \in Components :
        sys.pc[c] = "clear" /\ sys.queue[c] = <<>> /\ sys.lock[c] = ""

------------------------------------------------------------------------------
(* ValueStore with receivers that expire *)

\* _notify_receivers_and_cleanup: the list it returns, "[r for r in receivers if
\* not r.expired]" if a receive reported expiry, else the list it was given
upd_receivers(receivers, expired) ==
    IF \E i \in 1..Len(receivers) : receivers[i] \in expired
    THEN SelectSeq(receivers, LAMBDA r : r \notin expired)
    ELSE receivers

\* set_value: "ValueStore._notify_receivers_and_cleanup(copy, key, value)" is a
\* statement, the list returned is not assigned to anything
receivers_after_set_value(receivers, returned) == receivers

\* the receivers in a list
InList(receivers) == {receivers[i] : i \in 1..Len(receivers)}

XpAddReceiver ==
    /\ \E key \in VsSubscribed, receiver \in VsReceivers :
        xp' = [xp EXCEPT !.receivers[key] = registered(@, receiver),
                         !.key = "", !.calls = <<>>]
    /\ UNCHANGED exceptExpiry

XpAddAllTopicReceiver ==
    /\ \E receiver \in VsReceivers :
        xp' = [xp EXCEPT !.all = registered(@, receiver), !.key = "", !.calls = <<>>]
    /\ UNCHANGED exceptExpiry

\* ValueQueue.expire
XpExpire ==
    /\ \E receiver \in VsReceivers :
        /\ receiver \notin xp.expired
        /\ xp' = [xp EXCEPT !.expired = @ \cup {receiver}, !.key = "", !.calls = <<>>]
    /\ UNCHANGED exceptExpiry

\* ValueStore.set_value: both lists are copied, receive is called on every receiver
\* of the copies, and an expired receiver reports it
XpSetValue ==
    /\ \E key \in VsTopics :
        LET all_copy == xp.all
            entry_copy == xp.receivers[key]
        IN xp' = [xp EXCEPT
                    !.all = receivers_after_set_value(
                                @, upd_receivers(all_copy, xp.expired)),
                    !.receivers[key] = receivers_after_set_value(
                                @, upd_receivers(entry_copy, xp.expired)),
                    !.reported = @ \cup ((InList(all_copy) \cup InList(entry_copy))
                                            \cap xp.expired),
                    !.key = key,
                    !.calls = all_copy \o entry_copy]
    /\ UNCHANGED exceptExpiry

NextExpiry ==
    \/ XpAddReceiver
    \/ XpAddAllTopicReceiver
    \/ XpExpire
    \/ XpSetValue

SpecExpiry == Init /\ [][NextExpiry]_vars

\* C37: a receiver that has reported from receive that it is expired is in no
\* list of the store afterwards, and no later set_value calls its receive
C37_ExpiredReceiverPruned ==
    /\ [](\A r \in xp.reported :
            /\ r \notin InList(xp.all)
            /\ \A t \in VsTopics : r \notin InList(xp.receivers[t]))
    /\ [][xp'.key # "" => InList(xp'.calls) \cap xp.reported = {}]_vars

------------------------------------------------------------------------------
(* ComponentManager.register_component called by two threads at once *)

\* "self._components[comp_id] = map_entry": a new key is appended, the entry of an
\* existing key is replaced
put(components, entry) ==
    IF \E i \in 1..Len(components) : components[i].id = entry.id
    THEN [i \in 1..Len(components) |->
            IF components[i].id = entry.id THEN entry ELSE components[i]]
    ELSE Append(components, entry)

\* register_component: the two tests, made without the lock
RgCheck ==
    /\ \E t \in Registrars, component \in Components, instance_name \in InstanceNames :
        /\ rg.pc[t] = "idle"
        /\ rg' = IF is_registered(rg.components, component, instance_name)
                 THEN [rg EXCEPT !.pc[t] = "done", !.component[t] = component,
                                 !.instance_name[t] = instance_name,
                                 !.comp_id[t] = RegistrationFailed]
                 ELSE [rg EXCEPT !.pc[t] = "next_id", !.component[t] = component,
                                 !.instance_name[t] = instance_name]
    /\ UNCHANGED exceptRegister

\* _get_next_comp_id, "self._last_comp_id += 1": the counter is read
RgLoad ==
    /\ \E t \in Registrars :
        /\ rg.pc[t] = "next_id"
        /\ rg' = [rg EXCEPT !.loaded[t] = rg.last_comp_id, !.pc[t] = "add"]
    /\ UNCHANGED exceptRegister

\* _get_next_comp_id, "self._last_comp_id += 1": the sum is stored
RgStore ==
    /\ \E t \in Registrars :
        /\ rg.pc[t] = "add"
        /\ rg' = [rg EXCEPT !.last_comp_id = rg.loaded[t] + 1, !.pc[t] = "return"]
    /\ UNCHANGED exceptRegister

\* _get_next_comp_id, "return self._last_comp_id"
RgReturnId ==
    /\ \E t \in Registrars :
        /\ rg.pc[t] = "return"
        /\ rg' = [rg EXCEPT !.comp_id[t] = rg.last_comp_id, !.pc[t] = "insert"]
    /\ UNCHANGED exceptRegister

\* register_component: the entry is put into the registry under the lock, and the
\* id is returned
RgInsert ==
    /\ \E t \in Registrars :
        /\ rg.pc[t] = "insert"
        /\ rg' = [rg EXCEPT
                    !.components = put(@, [id |-> rg.comp_id[t],
                                           component |-> rg.component[t],
                                           instance_name |-> rg.instance_name[t],
                                           state |-> "REGISTERED"]),
                    !.pc[t] = "done"]
    /\ UNCHANGED exceptRegister

NextRegister ==
    \/ RgCheck
    \/ RgLoad
    \/ RgStore
    \/ RgReturnId
    \/ RgInsert

SpecRegister == Init /\ [][NextRegister]_vars

\* C38: the entries of the registry have pairwise distinct ids, instance names
\* and component objects, and the entry of every registration that returned a
\* positive id is in the registry
C38_RegistryConsistent ==
    /\ \A i, j \in 1..Len(rg.components) :
          i # j => /\ rg.components[i].id # rg.components[j].id
                   /\ rg.components[i].instance_name # rg.components[j].instance_name
                   /\ rg.components[i].component # rg.components[j].component
    /\ \A t \in Registrars :
          (rg.pc[t] = "done" /\ rg.comp_id[t] > 0) =>
              \E i \in 1..Len(rg.components) :
                  /\ rg.components[i].id = rg.comp_id[t]
                  /\ rg.components[i].component = rg.component[t]
                  /\ rg.components[i].instance_name = rg.instance_name[t]

------------------------------------------------------------------------------
(* ValueRecorder.stop and the poll loop of the write thread. The values are
   numbered in the order of their set_value calls; their topic is not disabled
   and the queue stays far below MAX_QUEUE_SIZE_LIMIT, so that _serialize
   writes every entry it is given; the entries of the status topic are left
   out *)

\* set_value on the store: Queue.receive appends the value, whether the queue
\* has expired or not
WsSetValue ==
    /\ ws.sets < MaxStopSets
    /\ ws' = [ws EXCEPT !.sets = @ + 1, !.queue = Append(@, ws.sets + 1)]
    /\ UNCHANGED exceptStop

\* stop: "self._queue.expire(); self._stop_request.set()", then the join begins
WsStop ==
    /\ ws.caller = "recording"
    /\ ws' = [ws EXCEPT !.expired = TRUE, !.stop_request = TRUE, !.caller = "join",
                    !.at_stop = ws.sets]
    /\ UNCHANGED exceptStop

\* stop: the join returns when the write thread has ended; the file is closed
WsJoin ==
    /\ ws.caller = "join"
    /\ ws.thread = "ended"
    /\ ws' = [ws EXCEPT !.closed = TRUE, !.caller = "stopped"]
    /\ UNCHANGED exceptStop

\* write_thread: "while not self._stop_request.is_set()"
WsTest ==
    /\ ws.thread = "test"
    /\ ws' = [ws EXCEPT !.thread = IF ws.stop_request THEN "ended" ELSE "pop"]
    /\ UNCHANGED exceptStop

\* write_thread: "qe, queue_size = self._queue.pop()" and "while qe.value is not None"
WsPop ==
    /\ ws.thread = "pop"
    /\ ws' = IF ws.queue = <<>>
             THEN [ws EXCEPT !.qe = 0, !.thread = "sleep"]
             ELSE [ws EXCEPT !.qe = Head(ws.queue), !.queue = Tail(@),
                             !.thread = "serialize"]
    /\ UNCHANGED exceptStop

\* write_thread: "self._serialize(qe)" writes the entry
WsSerialize ==
    /\ ws.thread = "serialize"
    /\ ws' = [ws EXCEPT !.file = Append(@, ws.qe), !.qe = 0, !.thread = "pop"]
    /\ UNCHANGED exceptStop

\* write_thread: "time.sleep(0.01)" ends
WsSleep ==
    /\ ws.thread = "sleep"
    /\ ws' = [ws EXCEPT !.thread = "test"]
    /\ UNCHANGED exceptStop

NextStop ==
    \/ WsSetValue
    \/ WsStop
    \/ WsJoin
    \/ WsTest
    \/ WsPop
    \/ WsSerialize
    \/ WsSleep

SpecStop == Init /\ [][NextStop]_vars

\* C39: when stop() has returned, every value set between start() and the call
\* of stop() is in the record file
C39_AllWrittenAtStop ==
    ws.caller = "stopped" =>
        \A n \in 1..ws.at_stop : \E i \in 1..Len(ws.file) : ws.file[i] = n

------------------------------------------------------------------------------
(* Two RemoteServices connected to one another. Each has a component thread
   (_handle_triggers), a receive thread (ZmqMsgPackReceiver.receive) and one
   send rule; a message of a sender waits in the inbox of the peer until the
   peer's receive thread reads it, and the sender waits for the response.
   Pings and pongs are left out: the links are up until a send times out *)

peer(s) == IF s = "A" THEN "B" ELSE "A"

\* the states in which the component thread waits in _check_for_response
AwaitsResponse == {"await_request_all", "await_queue", "await_forced"}

\* set_value on the topic of the send rule: the value enters the rule's queue
BrSetValue ==
    /\ \E s \in Services :
        /\ br.queue[s] < MaxBridgeQueue
        /\ br' = [br EXCEPT !.queue[s] = @ + 1]
    /\ UNCHANGED exceptBridge

\* run: the component thread is woken by a trigger
BrTrigger ==
    /\ \E s \in Services :
        /\ br.comp[s] = "wait"
        /\ br' = [br EXCEPT !.comp[s] = "triggers"]
    /\ UNCHANGED exceptBridge

\* _handle_triggers: on the first connection send_request_all is sent
BrFirstConnection ==
    /\ \E s \in Services :
        /\ br.comp[s] = "triggers"
        /\ br' = IF ~br.initialized[s] /\ br.connected[s]
                 THEN [br EXCEPT !.initialized[s] = TRUE,
                                 !.inbox[peer(s)] = Append(@, "sendAll"),
                                 !.comp[s] = "await_request_all"]
                 ELSE [br EXCEPT !.comp[s] = "handle_send"]
    /\ UNCHANGED exceptBridge

\* _handle_send: "if not self._initialized: return", else "with self._lock_send"
BrHandleSend ==
    /\ \E s \in Services :
        /\ br.comp[s] = "handle_send"
        /\ IF ~br.initialized[s]
           THEN br' = [br EXCEPT !.comp[s] = "wait"]
           ELSE /\ br.lock_send[s] = "free"
                /\ br' = [br EXCEPT !.lock_send[s] = "comp", !.comp[s] = "locked"]
    /\ UNCHANGED exceptBridge

\* _handle_send: the connected test, and _handle_send_single: the head of the
\* queue is sent
BrSendQueued ==
    /\ \E s \in Services :
        /\ br.comp[s] = "locked"
        /\ br' = IF ~br.connected[s]
                 THEN [br EXCEPT !.comp[s] = "release"]
                 ELSE IF br.queue[s] > 0
                 THEN [br EXCEPT !.inbox[peer(s)] = Append(@, "value"),
                                 !.comp[s] = "await_queue"]
                 ELSE [br EXCEPT !.comp[s] = "forced_check"]
    /\ UNCHANGED exceptBridge

\* _handle_send_single: the forced send of the value of the store
BrSendForced ==
    /\ \E s \in Services :
        /\ br.comp[s] = "forced_check"
        /\ br' = IF br.forced_send[s] /\ br.queue[s] = 0
                 THEN [br EXCEPT !.inbox[peer(s)] = Append(@, "value"),
                                 !.comp[s] = "await_forced"]
                 ELSE [br EXCEPT !.comp[s] = "release"]
    /\ UNCHANGED exceptBridge

\* _handle_send: the with block ends; the loop goes on if there is more to send
BrRelease ==
    /\ \E s \in Services :
        /\ br.comp[s] = "release"
        /\ br' = [br EXCEPT
                    !.lock_send[s] = "free",
                    !.comp[s] = IF br.connected[s] /\ (br.forced_send[s] \/ br.queue[s] > 0)
                                THEN "handle_send" ELSE "wait"]
    /\ UNCHANGED exceptBridge

\* the response the receive thread of r sends reaches the waiting sender
response(b, r) ==
    LET s == peer(r) IN
    IF b.comp[s] = "await_request_all" THEN [b EXCEPT !.comp[s] = "handle_send"]
    ELSE IF b.comp[s] = "await_queue"
         THEN [b EXCEPT !.comp[s] = "forced_check", !.queue[s] = @ - 1]
    ELSE IF b.comp[s] = "await_forced"
         THEN [b EXCEPT !.comp[s] = "release", !.forced_send[s] = FALSE]
    ELSE b

\* _receive_command: "sendAll" is answered, then request_all_received is called
BrReceiveCommand ==
    /\ \E r \in Services :
        /\ br.recv[r] = "receive"
        /\ br.inbox[r] # <<>>
        /\ Head(br.inbox[r]) = "sendAll"
        /\ br' = response([br EXCEPT !.inbox[r] = Tail(@), !.recv[r] = "send_all"], r)
    /\ UNCHANGED exceptBridge

\* send_all: "with self._lock_send" sets forced_send; then the trigger
BrSendAll ==
    /\ \E r \in Services :
        /\ br.recv[r] = "send_all"
        /\ br.lock_send[r] = "free"
        /\ br' = [br EXCEPT !.forced_send[r] = TRUE, !.recv[r] = "receive",
                            !.comp[r] = IF @ = "wait" THEN "triggers" ELSE @]
    /\ UNCHANGED exceptBridge

\* _receive_value: the value is handed to value_received and answered
BrReceiveValue ==
    /\ \E r \in Services :
        /\ br.recv[r] = "receive"
        /\ br.inbox[r] # <<>>
        /\ Head(br.inbox[r]) = "value"
        /\ br' = response([br EXCEPT !.inbox[r] = Tail(@)], r)
    /\ UNCHANGED exceptBridge

\* _check_for_response: no response within the send timeout; a value send
\* reports it to the status tracker, which takes the link down
BrTimeout ==
    /\ \E s \in Services :
        /\ br.comp[s] \in AwaitsResponse
        /\ br' = IF br.comp[s] = "await_request_all"
                 THEN [br EXCEPT !.comp[s] = "handle_send"]
                 ELSE [br EXCEPT !.comp[s] = "release", !.connected[s] = FALSE]
    /\ UNCHANGED exceptBridge

NextBridge ==
    \/ BrSetValue
    \/ BrTrigger
    \/ BrFirstConnection
    \/ BrHandleSend
    \/ BrSendQueued
    \/ BrSendForced
    \/ BrRelease
    \/ BrReceiveCommand
    \/ BrSendAll
    \/ BrReceiveValue
    \/ BrTimeout

SpecBridge == Init /\ [][NextBridge]_vars

\* the component thread of s holds the send lock and waits for the response
\* to a value; the receive thread of s waits for the send lock in send_all
BlockedOnPeer(s) ==
    /\ br.lock_send[s] = "comp"
    /\ br.comp[s] \in {"await_queue", "await_forced"}
    /\ br.recv[s] = "send_all"

\* C40: the two services are never both blocked, each component thread holding
\* its send lock and waiting for the peer's receive thread while each receive
\* thread waits for the send lock of its own service
C40_NoMutualBlock == ~(\A s \in Services : BlockedOnPeer(s))

====
